---------------------------- MODULE Spec2Model ----------------------------
(***************************************************************************)
(* A model of the timetable generator src/timetable_gen.py: the time grid, *)
(* the break calendar, the room allocator, the constraint predicates and   *)
(* the placement engine of generate_all_timetables.                        *)
(*                                                                         *)
(* Conventions.  Times are minutes after midnight.  Slot, day and section  *)
(* indices are 0-based as in the source.  A Python string that the code    *)
(* inspects character by character (course codes, faculty strings) is a    *)
(* sequence of one-character strings; '' is << >>.  None is "None".  A     *)
(* room result is a sequence of room ids: << >> for None, <<r>> for one    *)
(* room, <<a, b>> for the pair "a,b" (shown as "a+b" in the timetable).    *)
(***************************************************************************)
EXTENDS Integers, Sequences, FiniteSets, TLC

(***************************************************************************)
(* Bounds of the model.                                                    *)
(***************************************************************************)
\* how many of the CLASS_DAYS the model schedules on (the code has 5)
NumDays == 2
MaxBase == 7
\* the retry budget of the random-restart loops (the code has 1000)
MaxAttempts == 2
MaxCredit == 4
MaxRows == 3
MaxStudents == 12

(***************************************************************************)
(* Program constants (src/timetable_gen.py:13-30).                         *)
(***************************************************************************)
TIME_INCREMENT == 30
LECTURE == 3
LAB == 4
TUT == 2
SELF_STUDY == 2
BUFFER == 1
DAY_START == 540
DAY_END == 1110
MEAL_PERIOD_START == 750
MEAL_PERIOD_END == 840
MEAL_DURATION == 60
MORNING_BREAK_START == 630
MORNING_BREAK_END == 660
DEFAULT_SIZE == 60
LAB_CAPACITY == 35
MIN_HOURS_GAP == 3
SLOTS_PER_HOUR == 2
LIMIT_REGULAR == 2
LIMIT_ELECTIVE == 3

None == "None"
Unbound == -1

Days == 0 .. (NumDays - 1)

(***************************************************************************)
(* Strings as character sequences.                                         *)
(***************************************************************************)
Range(s) == {s[i] : i \in 1 .. Len(s)}

Min(S) == CHOOSE x \in S : \A y \in S : x <= y
Max(S) == CHOOSE x \in S : \A y \in S : x >= y

\* sub in s, for Python strings
Contains(s, sub) ==
    \E i \in 0 .. (Len(s) - Len(sub)) :
        \A j \in 1 .. Len(sub) : s[i + j] = sub[j]

\* s.split(c)[0]
SplitFirst(s, c) ==
    IF c \in Range(s)
    THEN SubSeq(s, 1, Min({i \in 1 .. Len(s) : s[i] = c}) - 1)
    ELSE s

\* faculty_string.split('/')[0].strip(); the engine never calls it
choose_instructor(faculty_string) ==
    LET first == SplitFirst(faculty_string, "/")
        Blank(j) == first[j] = " "
        inner == {j \in 1 .. Len(first) : ~Blank(j)}
    IN  IF "/" \in Range(faculty_string)
        THEN IF inner = {} THEN << >> ELSE SubSeq(first, Min(inner), Max(inner))
        ELSE faculty_string

(***************************************************************************)
(* Time grid.                                                              *)
(***************************************************************************)
RECURSIVE GridFrom(_)
GridFrom(current) ==
    IF current < DAY_END
    THEN <<[start |-> current, end |-> current + TIME_INCREMENT]>>
             \o GridFrom(current + TIME_INCREMENT)
    ELSE << >>

create_time_grid == GridFrom(DAY_START)

all_time_slots == create_time_grid

NumSlots == Len(all_time_slots)

Slots == 0 .. (NumSlots - 1)

\* all_time_slots[i] of the source (0-based)
TimeSlot(i) == all_time_slots[i + 1]

(***************************************************************************)
(* Break calendar.                                                         *)
(***************************************************************************)
\* sorted(semesters) as a sequence
RECURSIVE SortedSeq(_)
SortedSeq(S) ==
    IF S = {} THEN << >> ELSE <<Min(S)>> \o SortedSeq(S \ {Min(S)})

\* the meal window of every semester base: base -> <<start, end>>
\* a stagger rounded up to the next minute
compute_meal_times_RoundedUp(semesters) ==
    LET n == Cardinality(semesters)
        offset(idx) ==
            IF n > 1
            THEN (idx * (MEAL_PERIOD_END - MEAL_PERIOD_START - MEAL_DURATION) + n - 2)
                     \div (n - 1)
            ELSE 0
    IN  [sem \in semesters |->
            <<MEAL_PERIOD_START + offset(Cardinality({x \in semesters : x < sem})),
              MEAL_PERIOD_START + offset(Cardinality({x \in semesters : x < sem}))
                  + MEAL_DURATION>>]

\* a stagger of one slot for every base
compute_meal_times_SlotStagger(semesters) ==
    [sem \in semesters |->
        <<MEAL_PERIOD_START + TIME_INCREMENT * Cardinality({x \in semesters : x < sem}),
          MEAL_PERIOD_START + TIME_INCREMENT * Cardinality({x \in semesters : x < sem})
              + MEAL_DURATION>>]

\* a stagger that spreads the starts over the whole meal period
compute_meal_times_WholePeriod(semesters) ==
    LET n == Cardinality(semesters)
        offset(idx) ==
            IF n > 1 THEN (idx * (MEAL_PERIOD_END - MEAL_PERIOD_START)) \div (n - 1)
            ELSE 0
    IN  [sem \in semesters |->
            <<MEAL_PERIOD_START + offset(Cardinality({x \in semesters : x < sem})),
              MEAL_PERIOD_START + offset(Cardinality({x \in semesters : x < sem}))
                  + MEAL_DURATION>>]

compute_meal_times(semesters) ==
    LET total_minutes == MEAL_PERIOD_END - MEAL_PERIOD_START
        n == Cardinality(semesters)
        ordered == SortedSeq(semesters)
        \* int(idx * time_between), time_between = (total - 60) / (n - 1)
        offset(idx) ==
            IF n > 1 THEN (idx * (total_minutes - MEAL_DURATION)) \div (n - 1)
            ELSE 0
        start_mins(idx) == MEAL_PERIOD_START + offset(idx)
    IN  [sem \in semesters |->
            LET idx == (CHOOSE i \in 1 .. n : ordered[i] = sem) - 1
            IN  <<start_mins(idx), start_mins(idx) + MEAL_DURATION>>]

\* int(c) for a digit character
DigitVal(c) ==
    CASE c = "0" -> 0 [] c = "1" -> 1 [] c = "2" -> 2 [] c = "3" -> 3
      [] c = "4" -> 4 [] c = "5" -> 5 [] c = "6" -> 6 [] c = "7" -> 7
      [] c = "8" -> 8 [] c = "9" -> 9

\* int(str(semester)[0])
SemBase(semester) == DigitVal(semester[1])

\* a break test that knows the meal windows only
is_break_period_MealOnly(meals, time_slot, semester) ==
    /\ SemBase(semester) \in DOMAIN meals
    /\ meals[SemBase(semester)][1] <= time_slot.start
    /\ time_slot.start < meals[SemBase(semester)][2]

\* a break test that asks for the whole slot to lie in the break
is_break_period_WholeSlot(meals, time_slot, semester) ==
    \/ MORNING_BREAK_START <= time_slot.start /\ time_slot.end <= MORNING_BREAK_END
    \/ /\ SemBase(semester) \in DOMAIN meals
       /\ meals[SemBase(semester)][1] <= time_slot.start
       /\ time_slot.end <= meals[SemBase(semester)][2]

is_break_period(meals, time_slot, semester) ==
    LET start_time == time_slot.start
        morning_break ==
            MORNING_BREAK_START <= start_time /\ start_time < MORNING_BREAK_END
        base_sem == SemBase(semester)
        is_meal_time ==
            IF base_sem \in DOMAIN meals
            THEN meals[base_sem][1] <= start_time
                 /\ start_time < meals[base_sem][2]
            ELSE FALSE
    IN  morning_break \/ is_meal_time

(***************************************************************************)
(* Course utilities.                                                       *)
(***************************************************************************)
\* Python round() of num/den for num >= 0, den > 0: ties go to even
RoundHalfEven(num, den) ==
    LET q == num \div den
        r == num % den
    IN  IF 2 * r < den THEN q
        ELSE IF 2 * r > den THEN q + 1
        ELSE IF q % 2 = 0 THEN q ELSE q + 1

\* lecture sessions truncated instead of rounded
determine_required_sessions_Truncated(course) ==
    IF course.S > 0 /\ course.L = 0 /\ course.T = 0 /\ course.P = 0
    THEN [lec |-> 0, tut |-> 0, lab |-> 0, ss |-> 0]
    ELSE [lec |-> IF course.L > 0 THEN Max({1, (course.L * 2) \div 3}) ELSE 0,
          tut |-> course.T, lab |-> course.P \div 2,
          ss |-> IF course.L > 0 \/ course.T > 0 \/ course.P > 0
                 THEN course.S \div 4 ELSE 0]

determine_required_sessions(course) ==
    LET lecture_credits == course.L
        tutorial_hours == course.T
        lab_hours == course.P
        self_study == course.S
        lec_sessions ==
            IF lecture_credits > 0
            THEN Max({1, RoundHalfEven(lecture_credits * 2, 3)})
            ELSE 0
        ss_sessions ==
            IF lecture_credits > 0 \/ tutorial_hours > 0 \/ lab_hours > 0
            THEN self_study \div 4
            ELSE 0
    IN  IF self_study > 0 /\ lecture_credits = 0 /\ tutorial_hours = 0
           /\ lab_hours = 0
        THEN [lec |-> 0, tut |-> 0, lab |-> 0, ss |-> 0]
        ELSE [lec |-> lec_sessions, tut |-> tutorial_hours,
              lab |-> lab_hours \div 2, ss |-> ss_sessions]

is_elective_course(code) ==
    Len(code) > 0 /\ code[1] = "B" /\ "-" \in Range(code)

\* None for a course that is no elective
get_elective_group(code) ==
    IF is_elective_course(code) THEN SplitFirst(code, "-") ELSE <<None>>

\* the priority without the 2 added for CS and EC labs
determine_course_priority_NoBoost(course) ==
    IF course.P > 0 /\ ~is_elective_course(course.code) THEN 10
    ELSE IF is_elective_course(course.code) THEN 1
    ELSE IF course.L > 2 THEN 3
    ELSE IF course.T > 0 THEN 2
    ELSE 0

determine_course_priority(course) ==
    LET code == course.code
    IN  IF course.P > 0 /\ ~is_elective_course(code)
        THEN 10 + (IF Contains(code, <<"C", "S">>) \/ Contains(code, <<"E", "C">>)
                   THEN 2 ELSE 0)
        ELSE IF is_elective_course(code) THEN 1
        ELSE IF course.L > 2 THEN 3
        ELSE IF course.T > 0 THEN 2
        ELSE 0

\* codes are upper case in the catalogs of the model, so upper() is omitted
determine_room_type(course) ==
    IF course.P > 0
    THEN IF Contains(course.code, <<"C", "S">>) \/ Contains(course.code, <<"D", "S">>)
         THEN "COMPUTER_LAB"
         ELSE IF Contains(course.code, <<"E", "C">>) THEN "HARDWARE_LAB"
         ELSE "COMPUTER_LAB"
    ELSE "LECTURE_ROOM"

(***************************************************************************)
(* Inputs: the catalog (combined.csv), the room inventory (rooms.csv) and  *)
(* the enrollment tables (updated_batches.csv, elective_registration.csv). *)
(* A run reads one of the inputs below.                                    *)
(***************************************************************************)
Inputs == {"lab", "sections", "depts", "lectures", "selfstudy", "electives",
           "unbound", "shared", "baskets", "faculty", "norooms", "oneroom"}

Course(dept, sem, code, faculty, l, t, p, s) ==
    [Department |-> dept, Semester |-> sem, code |-> code, name |-> "name",
     Faculty |-> faculty, L |-> l, T |-> t, P |-> p, S |-> s]

Room(id, capacity, type, number) ==
    [id |-> id, capacity |-> capacity, type |-> type, roomNumber |-> number]

Sem3 == <<"3">>
Sem4 == <<"4">>
FacX == <<"X">>
FacY == <<"Y">>
FacXY == <<"X", "/", "Y">>
CS101 == <<"C", "S", "1", "0", "1">>
CS301 == <<"C", "S", "3", "0", "1">>
MA101 == <<"M", "A", "1", "0", "1">>
EC201 == <<"E", "C", "2", "0", "1">>
EC305 == <<"E", "C", "3", "0", "5">>
B1A == <<"B", "1", "-", "A">>
B1B == <<"B", "1", "-", "B">>

\* the rows of combined.csv, in file order
course_data ==
    [i \in Inputs |->
        CASE i = "lab" -> <<Course("CS", Sem4, CS301, FacX, 1, 1, 2, 0)>>
          [] i = "sections" -> <<Course("CS", Sem4, MA101, FacX, 1, 0, 0, 0)>>
          [] i = "depts" -> <<Course("CS", Sem4, CS101, FacX, 1, 0, 0, 0),
                              Course("EC", Sem3, EC201, FacX, 0, 1, 0, 0)>>
          [] i = "lectures" -> <<Course("CS", Sem4, CS301, FacX, 3, 0, 0, 0)>>
          [] i = "selfstudy" -> <<Course("EC", Sem3, EC305, FacY, 0, 0, 2, 4)>>
          [] i = "electives" -> <<Course("CS", Sem4, B1A, FacX, 1, 0, 0, 0),
                                  Course("CS", Sem4, B1B, FacY, 1, 0, 0, 0)>>
          [] i = "unbound" -> <<Course("EC", Sem3, EC201, FacX, 0, 1, 0, 0)>>
          [] i = "shared" -> <<Course("CS", Sem4, CS301, FacX, 0, 0, 2, 0),
                               Course("EC", Sem4, CS101, FacY, 0, 0, 2, 0)>>
          [] i = "baskets" -> <<Course("CS", Sem4, B1A, FacX, 1, 0, 0, 0),
                                Course("EC", Sem4, B1B, FacY, 1, 0, 0, 0)>>
          [] i = "faculty" -> <<Course("CS", Sem4, CS101, FacXY, 1, 0, 0, 0),
                                Course("EC", Sem4, EC201, FacX, 1, 0, 0, 0)>>
          [] i = "norooms" -> <<Course("CS", Sem4, CS301, FacX, 0, 0, 2, 4)>>
          [] i = "oneroom" -> <<Course("CS", Sem4, B1A, FacX, 1, 0, 2, 0),
                                Course("CS", Sem4, B1B, FacY, 0, 1, 0, 0)>>]

\* the rows of rooms.csv, in file order; << >> also when the file is missing
facilities ==
    [i \in Inputs |->
        CASE i = "lab" -> <<Room("LB", 200, "LIBRARY", 100),
                            Room("R1", 80, "LECTURE_ROOM", 101),
                            Room("L1", 35, "COMPUTER_LAB", 201),
                            Room("L3", 35, "COMPUTER_LAB", 203),
                            Room("L2", 35, "COMPUTER_LAB", 202)>>
          [] i = "sections" -> <<Room("R1", 60, "LECTURE_ROOM", 101),
                                 Room("S1", 120, "SEATER_120", 102)>>
          [] i = "lectures" -> <<Room("R1", 60, "LECTURE_ROOM", 101)>>
          [] i = "selfstudy" -> <<Room("H1", 30, "HARDWARE_LAB", 301),
                                  Room("R1", 60, "LECTURE_ROOM", 101)>>
          [] i = "electives" -> <<Room("R1", 60, "LECTURE_ROOM", 101),
                                  Room("R2", 60, "LECTURE_ROOM", 102)>>
          [] i = "shared" -> <<Room("L1", 35, "COMPUTER_LAB", 201)>>
          [] i = "baskets" -> <<Room("R1", 60, "LECTURE_ROOM", 101),
                                Room("R2", 60, "LECTURE_ROOM", 102)>>
          [] i = "oneroom" -> <<Room("R1", 60, "LECTURE_ROOM", 101)>>
          [] OTHER -> << >>]

\* the rows of updated_batches.csv
batches ==
    [i \in Inputs |->
        CASE i = "lab" -> <<[Department |-> "CS", Semester |-> Sem4,
                             Total_Students |-> 70, MaxBatchSize |-> 70]>>
          [] i = "sections" -> <<[Department |-> "CS", Semester |-> Sem4,
                                  Total_Students |-> 70, MaxBatchSize |-> 35]>>
          [] OTHER -> << >>]

\* the rows of elective_registration.csv
elective_registration ==
    [i \in Inputs |->
        CASE i \in {"electives", "baskets"} -> <<[code |-> B1A, total |-> 40],
                                               [code |-> B1B, total |-> 40]>>
          [] OTHER -> << >>]

\* type.upper()
Upper(type) == IF type = "Computer_Lab" THEN "COMPUTER_LAB" ELSE type

\* word in type.upper(), for the room types of the inputs
TypeContains(type, word) ==
    \/ Upper(type) = word
    \/ word = "SEATER" /\ type = "SEATER_120"

(***************************************************************************)
(* Enrollment: key -> [total, num_sections, section_size]; a key is        *)
(* <<department, semester>> or <<"ELECTIVE", course code>>.                *)
(***************************************************************************)
\* an import that rounds the section count down (never below one)
import_enrollment_data_Floor(rows, elective_rows) ==
    [key \in {<<rows[j].Department, rows[j].Semester>> : j \in 1 .. Len(rows)} |->
        LET row == rows[Max({j \in 1 .. Len(rows) :
                               key = <<rows[j].Department, rows[j].Semester>>})]
            section_count == Max({1, row.Total_Students \div row.MaxBatchSize})
        IN  [total |-> row.Total_Students, num_sections |-> section_count,
             section_size |-> (row.Total_Students + section_count - 1)
                                  \div section_count]]

import_enrollment_data(rows, elective_rows) ==
    LET regular(row) ==
            LET students_total == row.Total_Students
                max_size == row.MaxBatchSize
                section_count == (students_total + max_size - 1) \div max_size
                students_per_section ==
                    (students_total + section_count - 1) \div section_count
            IN  [total |-> students_total, num_sections |-> section_count,
                 section_size |-> students_per_section]
        elective(row) ==
            [total |-> row.total, num_sections |-> 1, section_size |-> row.total]
        keys == {<<rows[j].Department, rows[j].Semester>> : j \in 1 .. Len(rows)}
                \cup {<<"ELECTIVE", elective_rows[j].code>> :
                         j \in 1 .. Len(elective_rows)}
    IN  [key \in keys |->
            \* a later row of the same key overwrites an earlier one;
            \* the elective rows are read after the batch rows
            IF \E j \in 1 .. Len(elective_rows) :
                   key = <<"ELECTIVE", elective_rows[j].code>>
            THEN elective(elective_rows[Max({j \in 1 .. Len(elective_rows) :
                              key = <<"ELECTIVE", elective_rows[j].code>>})])
            ELSE regular(rows[Max({j \in 1 .. Len(rows) :
                              key = <<rows[j].Department, rows[j].Semester>>})])]

enrollment_data ==
    [i \in Inputs |-> import_enrollment_data(batches[i], elective_registration[i])]

(***************************************************************************)
(* Iteration order of generate_all_timetables.                             *)
(***************************************************************************)
\* Series.unique(): the distinct values in order of first appearance
RECURSIVE Unique(_)
Unique(s) ==
    IF s = << >> THEN << >>
    ELSE LET rest == Unique(SubSeq(s, 1, Len(s) - 1))
             last == s[Len(s)]
         IN  IF last \in Range(rest) THEN rest ELSE Append(rest, last)

\* sort_values('priority', ascending=False), equal priorities in input order
RECURSIVE SortByPriority(_)
SortByPriority(s) ==
    IF s = << >> THEN << >>
    ELSE LET top == Max({determine_course_priority(s[j]) : j \in 1 .. Len(s)})
             first == Min({j \in 1 .. Len(s) :
                             determine_course_priority(s[j]) = top})
         IN  <<s[first]>>
             \o SortByPriority(SubSeq(s, 1, first - 1) \o SubSeq(s, first + 1, Len(s)))

IsLabCourse(c) == c.P > 0
IsRegularCourse(c) == c.P = 0

\* the course order of one (department, semester)
PrioritizedCourses(rows, department, semester) ==
    LET IsActive(c) == c.Department = department /\ c.Semester = semester
        active_courses == SelectSeq(rows, IsActive)
        lab_courses == SortByPriority(SelectSeq(active_courses, IsLabCourse))
        regular_courses == SortByPriority(SelectSeq(active_courses, IsRegularCourse))
    IN  SortByPriority(lab_courses \o regular_courses)

RECURSIVE Concat(_)
Concat(ss) == IF ss = << >> THEN << >> ELSE ss[1] \o Concat(Tail(ss))

\* the sections in processing order: department, semester, section index
SectionList(rows, enrollment) ==
    LET depts == Unique([j \in 1 .. Len(rows) |-> rows[j].Department])
        sems(d) ==
            LET InDept(c) == c.Department = d
                of_dept == SelectSeq(rows, InDept)
            IN  Unique([j \in 1 .. Len(of_dept) |-> of_dept[j].Semester])
        section_count(d, s) ==
            IF <<d, s>> \in DOMAIN enrollment
            THEN enrollment[<<d, s>>].num_sections ELSE 1
        of_sem(d, s) ==
            [x \in 1 .. section_count(d, s) |->
                [department |-> d, semester |-> s, section_idx |-> x - 1,
                 section_count |-> section_count(d, s),
                 courses |-> PrioritizedCourses(rows, d, s)]]
        of_dept(d) == Concat([j \in 1 .. Len(sems(d)) |-> of_sem(d, sems(d)[j])])
    IN  Concat([j \in 1 .. Len(depts) |-> of_dept(depts[j])])

sections == [i \in Inputs |-> SectionList(course_data[i], enrollment_data[i])]

\* all_semester_bases and the meal breaks computed from them
meal_schedules ==
    [i \in Inputs |->
        compute_meal_times({SemBase(course_data[i][j].Semester) :
                               j \in 1 .. Len(course_data[i])})]

\* the instructors of the catalog
Instructors(i) == {course_data[i][j].Faculty : j \in 1 .. Len(course_data[i])}

RoomIds(i) == {facilities[i][j].id : j \in 1 .. Len(facilities[i])}

RoomOf(i, id) ==
    facilities[i][CHOOSE j \in 1 .. Len(facilities[i]) : facilities[i][j].id = id]

(***************************************************************************)
(* Room allocation.  rs is the 'schedule' field of every room: room id ->  *)
(* day -> occupied slots.  An allocation returns the room result and the   *)
(* room schedules it leaves behind.                                        *)
(***************************************************************************)
Covered(start_slot, duration) == start_slot .. (start_slot + duration - 1)

\* a room test that never finds a room occupied
IsFree_Always(rs, id, day, start_slot, duration) ==
    \A x \in Covered(start_slot, duration) : x \in Slots

IsFree(rs, id, day, start_slot, duration) ==
    \A x \in Covered(start_slot, duration) : x \notin rs[id][day]

\* a reservation that marks the first slot only
Reserve_FirstSlot(rs, id, day, start_slot, duration) ==
    [rs EXCEPT ![id][day] = @ \cup {start_slot}]

Reserve(rs, id, day, start_slot, duration) ==
    [rs EXCEPT ![id][day] = @ \cup Covered(start_slot, duration)]

IsLectureRoom(room) == TypeContains(room.type, "LECTURE_ROOM")
IsSeaterRoom(room) == TypeContains(room.type, "SEATER")

NoRoom(rs) == [room_id |-> << >>, rs |-> rs]

\* the first result unless it is None
OrElse(first, second) == IF first.room_id # << >> THEN first ELSE second

\* the first room of room_map among the positions in hits is marked and returned
Granted(room_map, hits, day, start_slot, duration, rs) ==
    IF hits = {} THEN NoRoom(rs)
    ELSE [room_id |-> <<room_map[Min(hits)].id>>,
          rs |-> Reserve(rs, room_map[Min(hits)].id, day, start_slot, duration)]

\* a search that takes any other room of the same type on the floor
find_adjacent_room_SameFloor(room_id, rooms) ==
    LET current == rooms[CHOOSE j \in 1 .. Len(rooms) : rooms[j].id = room_id]
        Near(room) ==
            /\ room.id # room_id
            /\ room.type = current.type
            /\ room.roomNumber \div 100 = current.roomNumber \div 100
    IN  IF \E j \in 1 .. Len(rooms) : Near(rooms[j])
        THEN rooms[Min({j \in 1 .. Len(rooms) : Near(rooms[j])})].id
        ELSE None

\* the id of an adjacent room of the same type, or None
find_adjacent_room(room_id, rooms) ==
    LET current == rooms[CHOOSE j \in 1 .. Len(rooms) : rooms[j].id = room_id]
        Adjacent(room) ==
            /\ room.id # room_id
            /\ room.type = current.type
            /\ room.roomNumber \div 100 = current.roomNumber \div 100
            /\ \/ room.roomNumber - current.roomNumber = 1
               \/ current.roomNumber - room.roomNumber = 1
    IN  IF \E j \in 1 .. Len(rooms) : Adjacent(rooms[j])
        THEN rooms[Min({j \in 1 .. Len(rooms) : Adjacent(rooms[j])})].id
        ELSE None

\* a search that does not filter by room type
allocate_room_AnyType(room_map, room_type, required_size, day, start_slot, duration, excluded_rooms, rs) ==
    LET Suits(room) ==
            /\ room.id \notin excluded_rooms
            /\ Upper(room.type) # "LIBRARY"
            /\ room_type \notin {"COMPUTER_LAB", "HARDWARE_LAB"}
                  => room.capacity >= required_size
            /\ IsFree(rs, room.id, day, start_slot, duration)
    IN  Granted(room_map, {j \in 1 .. Len(room_map) : Suits(room_map[j])},
                day, start_slot, duration, rs)

allocate_room(room_map, room_type, required_size, day, start_slot, duration, excluded_rooms, rs) ==
    LET Suits(room) ==
            /\ room.id \notin excluded_rooms
            /\ Upper(room.type) # "LIBRARY"
            /\ room_type \in {"LEC", "TUT", "SELF_STUDY"}
                  => (IsLectureRoom(room) \/ IsSeaterRoom(room))
            /\ room_type = "COMPUTER_LAB" => Upper(room.type) = "COMPUTER_LAB"
            /\ room_type = "HARDWARE_LAB" => Upper(room.type) = "HARDWARE_LAB"
            /\ room_type \notin {"COMPUTER_LAB", "HARDWARE_LAB"}
                  => room.capacity >= required_size
            /\ IsFree(rs, room.id, day, start_slot, duration)
    IN  Granted(room_map, {j \in 1 .. Len(room_map) : Suits(room_map[j])},
                day, start_slot, duration, rs)

\* seater rooms first, then lecture rooms
SeaterThenLecture(rooms, required_size, day, start_slot, duration, excluded_rooms, rs) ==
    OrElse(allocate_room(SelectSeq(rooms, IsSeaterRoom), "LEC", required_size,
                         day, start_slot, duration, excluded_rooms, rs),
           allocate_room(SelectSeq(rooms, IsLectureRoom), "LEC", required_size,
                         day, start_slot, duration, excluded_rooms, rs))

\* lecture rooms first, then seater rooms
LectureThenSeater(rooms, required_size, day, start_slot, duration, excluded_rooms, rs) ==
    OrElse(allocate_room(SelectSeq(rooms, IsLectureRoom), "LEC", required_size,
                         day, start_slot, duration, excluded_rooms, rs),
           allocate_room(SelectSeq(rooms, IsSeaterRoom), "LEC", required_size,
                         day, start_slot, duration, excluded_rooms, rs))

\* sorted(rooms, key=usage): ascending, equal usage in the given order
RECURSIVE SortByUsage(_, _)
SortByUsage(s, usage) ==
    IF s = << >> THEN << >>
    ELSE LET first == Min({j \in 1 .. Len(s) :
                             \A x \in 1 .. Len(s) : usage[s[j].id] <= usage[s[x].id]})
         IN  <<s[first]>>
             \o SortByUsage(SubSeq(s, 1, first - 1) \o SubSeq(s, first + 1, Len(s)),
                            usage)

RECURSIVE SumOver(_, _)
SumOver(f, S) ==
    IF S = {} THEN 0
    ELSE LET x == CHOOSE y \in S : TRUE IN f[x] + SumOver(f, S \ {x})

\* room id -> slots occupied over the week
RoomUsage(rooms, rs) ==
    [rid \in {rooms[j].id : j \in 1 .. Len(rooms)} |->
        SumOver([d \in Days |-> Cardinality(rs[rid][d])], Days)]

\* the end of the elective branch: a free room, else a room of the group,
\* else the regular search without the rooms other courses hold
ElectivePick(order, hits, group_hits, elective_excluded_rooms, rooms, required_size, day, start_slot, duration, rs) ==
    IF hits # {} THEN Granted(order, hits, day, start_slot, duration, rs)
    ELSE IF group_hits # {}
    THEN [room_id |-> <<order[Max(group_hits)].id>>, rs |-> rs]
    ELSE LectureThenSeater(rooms, required_size, day, start_slot, duration,
                           elective_excluded_rooms, rs)

\* the scan of the rooms in order of usage, up to the first room that is
\* returned: hits are the positions of the rooms that can be returned, codes
\* maps the position of a scanned room that is occupied and is the classroom
\* of the record of the section timetable at its first occupied slot to the
\* code of that record
ElectiveMarks(order, elective_group, required_size, day, start_slot, duration, timetable, rs) ==
    LET Occupied(room) == ~IsFree(rs, room.id, day, start_slot, duration)
        \* the record of the section timetable at the first occupied slot
        slot_data(room) ==
            timetable[day][Min({x \in Covered(start_slot, duration) :
                                  x \in rs[room.id][day]})]
        Recorded(room) ==
            /\ Occupied(room)
            /\ slot_data(room).classroom = <<room.id>>
            /\ slot_data(room).type # None
        SameGroup(room) ==
            get_elective_group(slot_data(room).code) = elective_group
        excluded_before(j) ==
            {order[x].id : x \in {y \in 1 .. (j - 1) :
                                    Recorded(order[y]) /\ ~SameGroup(order[y])}}
        hits == {j \in 1 .. Len(order) :
                    /\ ~Occupied(order[j])
                    /\ order[j].id \notin excluded_before(j)
                    /\ order[j].capacity >= required_size}
        scanned == 1 .. (IF hits = {} THEN Len(order) ELSE Min(hits))
    IN  [hits |-> hits,
         codes |-> [j \in {y \in scanned : Recorded(order[y])} |->
                       slot_data(order[j]).code]]

\* elective_group_rooms and elective_excluded_rooms are filled from the
\* records met in the scan
ElectiveScan(order, elective_group, rooms, required_size, day, start_slot, duration, timetable, course_code, rs) ==
    LET marks == ElectiveMarks(order, elective_group, required_size, day,
                               start_slot, duration, timetable, rs)
    IN  ElectivePick(order, marks.hits,
            {j \in DOMAIN marks.codes :
                /\ get_elective_group(marks.codes[j]) = elective_group
                /\ marks.codes[j] = course_code},
            {order[j].id : j \in {y \in DOMAIN marks.codes :
                get_elective_group(marks.codes[y]) # elective_group}},
            rooms, required_size, day, start_slot, duration, rs)

\* sorted_lecture_rooms, then sorted_seater_rooms
ElectiveOrder(rooms, rs) ==
    SortByUsage(SelectSeq(rooms, IsLectureRoom), RoomUsage(rooms, rs))
        \o SortByUsage(SelectSeq(rooms, IsSeaterRoom), RoomUsage(rooms, rs))

\* the elective branch of assign_suitable_room
assign_elective_room(required_size, day, start_slot, duration, rooms, timetable, course_code, rs) ==
    ElectiveScan(ElectiveOrder(rooms, rs),
                 get_elective_group(course_code), rooms, required_size, day,
                 start_slot, duration, timetable, course_code, rs)

\* both rooms of a pair are marked and returned
GrantedPair(room_id, adjacent_room, day, start_slot, duration, rs) ==
    [room_id |-> <<room_id, adjacent_room>>,
     rs |-> Reserve(Reserve(rs, room_id, day, start_slot, duration),
                    adjacent_room, day, start_slot, duration)]

\* the paired-room search of assign_suitable_room for an oversized lab
assign_lab_pair(course_type, day, start_slot, duration, rooms, rooms_to_exclude, rs) ==
    LET PairFree(room, adjacent_room) ==
            /\ room.id \notin rooms_to_exclude
            /\ Upper(room.type) = course_type
            /\ IsFree(rs, room.id, day, start_slot, duration)
            /\ adjacent_room # None
            /\ adjacent_room \notin rooms_to_exclude
            /\ IsFree(rs, adjacent_room, day, start_slot, duration)
        Pairs(j) == PairFree(rooms[j], find_adjacent_room(rooms[j].id, rooms))
        First(j) == GrantedPair(rooms[j].id, find_adjacent_room(rooms[j].id, rooms),
                                day, start_slot, duration, rs)
    IN  IF \E j \in 1 .. Len(rooms) : Pairs(j)
        THEN First(Min({j \in 1 .. Len(rooms) : Pairs(j)}))
        ELSE NoRoom(rs)

\* a required size that ignores the enrollment records
RequiredSize_Default(enrollment, department, semester, course_code) ==
    DEFAULT_SIZE

RequiredSize(enrollment, department, semester, course_code) ==
    IF is_elective_course(course_code)
    THEN IF <<"ELECTIVE", course_code>> \in DOMAIN enrollment
         THEN enrollment[<<"ELECTIVE", course_code>>].section_size
         ELSE DEFAULT_SIZE
    ELSE IF <<department, semester>> \in DOMAIN enrollment
         THEN enrollment[<<department, semester>>].section_size
         ELSE DEFAULT_SIZE

\* the enrollment of the (department, semester) exceeds one lab
Oversized(enrollment, department, semester) ==
    /\ <<department, semester>> \in DOMAIN enrollment
    /\ enrollment[<<department, semester>>].total > LAB_CAPACITY

\* an allocator without the DEFAULT_ROOM answer for an empty inventory
SuitableRoom_NoDefault(course_type, required_size, oversized, is_elective, day, start_slot, duration, rooms, timetable, course_code, rooms_to_exclude, rs) ==
    IF course_type \in {"LEC", "TUT", "SELF_STUDY"} \/ is_elective
    THEN LectureThenSeater(rooms, required_size, day, start_slot, duration,
                           rooms_to_exclude, rs)
    ELSE allocate_room(rooms, course_type, required_size, day, start_slot, duration,
                       rooms_to_exclude, rs)

\* the elective branch never reads rooms_to_exclude
SuitableRoom(course_type, required_size, oversized, is_elective, day, start_slot, duration, rooms, timetable, course_code, rooms_to_exclude, rs) ==
    IF rooms = << >> THEN [room_id |-> <<"DEFAULT_ROOM">>, rs |-> rs]
    ELSE IF course_type \in {"COMPUTER_LAB", "HARDWARE_LAB"}
    THEN OrElse(IF oversized
                THEN assign_lab_pair(course_type, day, start_slot, duration, rooms,
                                     rooms_to_exclude, rs)
                ELSE NoRoom(rs),
                allocate_room(rooms, course_type, required_size, day, start_slot,
                              duration, rooms_to_exclude, rs))
    ELSE IF course_type \in {"LEC", "TUT", "SELF_STUDY"} \/ is_elective
    THEN IF is_elective
         THEN assign_elective_room(required_size, day, start_slot, duration, rooms,
                                   timetable, course_code, rs)
         ELSE LectureThenSeater(rooms, required_size, day, start_slot, duration,
                                rooms_to_exclude, rs)
    ELSE allocate_room(rooms, course_type, required_size, day, start_slot, duration,
                       rooms_to_exclude, rs)

\* excluded_rooms=None stands for the empty set
assign_suitable_room(course_type, department, semester, day, start_slot, duration, rooms, enrollment, timetable, course_code, excluded_rooms, rs) ==
    SuitableRoom(course_type,
                 RequiredSize(enrollment, department, semester, course_code),
                 Oversized(enrollment, department, semester),
                 is_elective_course(course_code),
                 day, start_slot, duration, rooms, timetable, course_code,
                 excluded_rooms, rs)

(***************************************************************************)
(* Constraint predicates.  A timetable is day -> slot -> record.           *)
(***************************************************************************)
EmptySlot ==
    [type |-> None, code |-> << >>, name |-> "", faculty |-> << >>,
     classroom |-> << >>]

EmptyTimetable == [d \in Days |-> [x \in Slots |-> EmptySlot]]

is_activity_scheduled(timetable, day, start_slot, end_slot) ==
    \E slot \in start_slot .. (end_slot - 1) :
        /\ slot < NumSlots
        /\ timetable[day][slot].type \in {"LEC", "LAB", "TUT"}

find_group_slots(timetable, day, group) ==
    {slot_idx \in Slots :
        /\ timetable[day][slot_idx].code # << >>
        /\ get_elective_group(timetable[day][slot_idx].code) = group}

\* the sessions the instructor holds on the day in this timetable
SessionsCount(instructor, day, timetable) ==
    Cardinality({x \in Slots :
                    /\ timetable[day][x].faculty = instructor
                    /\ timetable[day][x].type \in {"LEC", "LAB", "TUT"}
                    /\ timetable[day][x].code # << >>
                    /\ ~is_elective_course(timetable[day][x].code)})
    + Cardinality({timetable[day][x].code :
                      x \in {y \in Slots :
                                /\ timetable[day][y].faculty = instructor
                                /\ timetable[day][y].type \in {"LEC", "LAB", "TUT"}
                                /\ is_elective_course(timetable[day][y].code)}})

check_instructor_workload(instructor, day, timetable, course_code) ==
    IF /\ is_elective_course(course_code)
       /\ find_group_slots(timetable, day, get_elective_group(course_code)) # {}
    THEN SessionsCount(instructor, day, timetable) < LIMIT_ELECTIVE
    ELSE SessionsCount(instructor, day, timetable) < LIMIT_REGULAR

\* a spacing test that looks at the slot before start_slot only
check_course_session_spacing_Near(instructor_schedule, timetable, instructor, course_code, day, start_slot) ==
    \/ start_slot < 1
    \/ ~ /\ timetable[day][start_slot - 1].code = course_code
          /\ timetable[day][start_slot - 1].type \in {"LEC", "TUT"}

check_course_session_spacing(instructor_schedule, timetable, instructor, course_code, day, start_slot) ==
    LET gap_slots == MIN_HOURS_GAP * SLOTS_PER_HOUR
        Clash(x) ==
            /\ x \in instructor_schedule[instructor][day]
            /\ timetable[day][x].code = course_code
            /\ timetable[day][x].type \in {"LEC", "TUT"}
    IN  ~\E x \in (Max({0, start_slot - gap_slots}) .. (start_slot - 1))
                  \cup ((start_slot + 1)
                           .. (Min({NumSlots, start_slot + gap_slots}) - 1)) :
            Clash(x)

\* always False: reserved slots are not used
is_slot_reserved(slot, day, semester, department) == FALSE

\* instructor free, section slot empty, no break: the test shared by all kinds
\* a slot test that does not read the instructor register
SlotFree_NoInstructor(busy, timetable, meals, day, slot, semester) ==
    ~ \/ timetable[day][slot].type # None
      \/ is_break_period(meals, TimeSlot(slot), semester)

\* a slot test that does not read the section timetable
SlotFree_NoSection(busy, timetable, meals, day, slot, semester) ==
    ~ \/ slot \in busy[day]
      \/ is_break_period(meals, TimeSlot(slot), semester)

SlotFree(busy, timetable, meals, day, slot, semester) ==
    ~ \/ slot \in busy[day]
      \/ timetable[day][slot].type # None
      \/ is_break_period(meals, TimeSlot(slot), semester)

find_available_slots(timetable, busy, day, duration, semester, department, meals) ==
    {start_slot \in 0 .. (NumSlots - duration) :
        \A x \in Covered(start_slot, duration) :
            /\ SlotFree(busy, timetable, meals, day, x, semester)
            /\ ~is_slot_reserved(TimeSlot(x), day, semester, department)}

\* the lecture test: every covered slot free and no activity next to it
LectureSlotsAvailable(busy, timetable, meals, day, start_slot, semester) ==
    \A slot_idx \in Covered(start_slot, LECTURE) :
        /\ SlotFree(busy, timetable, meals, day, slot_idx, semester)
        /\ slot_idx > 0
              => ~is_activity_scheduled(timetable, day,
                                        Max({0, slot_idx - BUFFER}), slot_idx)
        /\ slot_idx < NumSlots - 1
              => ~is_activity_scheduled(timetable, day, slot_idx + 1,
                                        Min({NumSlots, slot_idx + BUFFER + 1}))

\* the test of tutorials and self study: every covered slot free
SlotsAvailable(busy, timetable, meals, day, start_slot, duration, semester) ==
    \A x \in Covered(start_slot, duration) :
        SlotFree(busy, timetable, meals, day, x, semester)

NoneReserved(day, start_slot, duration, semester, department) ==
    \A x \in Covered(start_slot, duration) :
        ~is_slot_reserved(TimeSlot(x), day, semester, department)

(***************************************************************************)
(* Recording a placement.                                                  *)
(***************************************************************************)
\* the record written to slot start_slot + x of a session
\* a record that repeats the text fields on every covered slot
SlotRecord_Repeated(kind, course, room_id, x) ==
    [type |-> kind, code |-> course.code, name |-> course.name,
     faculty |-> course.Faculty, classroom |-> room_id]

SlotRecord(kind, course, room_id, x) ==
    [type |-> kind,
     code |-> IF x = 0 THEN course.code ELSE << >>,
     name |-> IF x = 0 THEN course.name ELSE "",
     faculty |-> IF x = 0 THEN course.Faculty ELSE << >>,
     classroom |-> IF x = 0 THEN room_id ELSE << >>]

MarkTimetable(timetable, kind, course, room_id, day, start_slot, duration) ==
    [timetable EXCEPT ![day] =
        [x \in Slots |->
            IF x \in Covered(start_slot, duration)
            THEN SlotRecord(kind, course, room_id, x - start_slot)
            ELSE @[x]]]

\* a register update that marks the first slot only
MarkInstructor_FirstSlot(instructor_schedule, instructor, day, start_slot, duration) ==
    [instructor_schedule EXCEPT ![instructor][day] = @ \cup {start_slot}]

MarkInstructor(instructor_schedule, instructor, day, start_slot, duration) ==
    [instructor_schedule EXCEPT ![instructor][day] =
        @ \cup Covered(start_slot, duration)]

(***************************************************************************)
(* The placement engine: the state of generate_all_timetables.             *)
(***************************************************************************)
VARIABLES
    input,                 \* which files the run has loaded
    sec,                   \* position of the section in process (1-based)
    phase,                 \* the loop in process: LEC, TUT, LAB, SS; DONE; ERROR
    ci,                    \* position of the course in prioritized_courses
    k,                     \* sessions of this loop already tried
    attempts,              \* attempts of the while loop in process
    start_slot,            \* the local start_slot, Unbound before its first draw
    schedule,              \* section -> timetable (one worksheet per section)
    instructor_schedules,  \* instructor -> day -> occupied slots
    room_schedule,         \* room id -> day -> occupied slots
    courses_not_scheduled, \* the global unscheduled list, in append order
    unplaced,              \* section -> course -> loops ended with scheduled False
    all_semester_bases,    \* the first digits of the semesters of the catalog
    meal_times,            \* the global meal_schedules: base -> <<start, end>>
    call,                  \* the arguments of a function called on its own
    returned,              \* what that call returned
    twin                   \* the draws and states of a run that is run again

vars == <<input, sec, phase, ci, k, attempts, start_slot, schedule,
          instructor_schedules, room_schedule, courses_not_scheduled, unplaced,
          all_semester_bases, meal_times, call, returned, twin>>

\* loop headers that run the labs of a course before its tutorials
RECURSIVE NextSession_LabBeforeTut(_, _, _, _, _)
NextSession_LabBeforeTut(secs, s, ph, c, n) ==
    IF s > Len(secs) THEN [sec |-> s, phase |-> "DONE", ci |-> 0, k |-> 0]
    ELSE IF ph = "SS" /\ c > Len(secs[s].courses)
    THEN NextSession_LabBeforeTut(secs, s + 1, "LEC", 1, 0)
    ELSE IF n < (CASE ph = "LEC" -> determine_required_sessions(secs[s].courses[c]).lec
                   [] ph = "TUT" -> determine_required_sessions(secs[s].courses[c]).tut
                   [] ph = "LAB" -> determine_required_sessions(secs[s].courses[c]).lab
                   [] ph = "SS" -> determine_required_sessions(secs[s].courses[c]).ss)
    THEN [sec |-> s, phase |-> ph, ci |-> c, k |-> n]
    ELSE CASE ph = "LEC" -> NextSession_LabBeforeTut(secs, s, "LAB", c, 0)
           [] ph = "LAB" -> NextSession_LabBeforeTut(secs, s, "TUT", c, 0)
           [] ph = "TUT" -> IF c < Len(secs[s].courses)
                            THEN NextSession_LabBeforeTut(secs, s, "LEC", c + 1, 0)
                            ELSE NextSession_LabBeforeTut(secs, s, "SS", 1, 0)
           [] ph = "SS" -> NextSession_LabBeforeTut(secs, s, "SS", c + 1, 0)

\* the loop headers: the next session to place from a position on
RECURSIVE NextSession(_, _, _, _, _)
NextSession(secs, s, ph, c, n) ==
    IF s > Len(secs) THEN [sec |-> s, phase |-> "DONE", ci |-> 0, k |-> 0]
    ELSE IF ph = "SS" /\ c > Len(secs[s].courses)
    THEN NextSession(secs, s + 1, "LEC", 1, 0)
    ELSE IF n < (CASE ph = "LEC" -> determine_required_sessions(secs[s].courses[c]).lec
                   [] ph = "TUT" -> determine_required_sessions(secs[s].courses[c]).tut
                   [] ph = "LAB" -> determine_required_sessions(secs[s].courses[c]).lab
                   [] ph = "SS" -> determine_required_sessions(secs[s].courses[c]).ss)
    THEN [sec |-> s, phase |-> ph, ci |-> c, k |-> n]
    ELSE CASE ph = "LEC" -> NextSession(secs, s, "TUT", c, 0)
           [] ph = "TUT" -> NextSession(secs, s, "LAB", c, 0)
           [] ph = "LAB" -> IF c < Len(secs[s].courses)
                            THEN NextSession(secs, s, "LEC", c + 1, 0)
                            ELSE NextSession(secs, s, "SS", 1, 0)
           [] ph = "SS" -> NextSession(secs, s, "SS", c + 1, 0)

\* the budget of a random-restart loop
BudgetLeft(n) == n < MaxAttempts

\* a counting of the report that takes every slot of the kind
ScheduledCount_AllSlots(timetable, code, kind) ==
    Cardinality({p \in Days \X Slots : timetable[p[1]][p[2]].type = kind})

\* scheduled_lec, scheduled_tut, scheduled_lab, scheduled_ss of the report
ScheduledCount(timetable, code, kind) ==
    Cardinality({p \in Days \X Slots :
                    /\ timetable[p[1]][p[2]].code = code
                    /\ timetable[p[1]][p[2]].type = kind})

\* missing_components is not empty
MissingComponents(course, timetable) ==
    \/ ScheduledCount(timetable, course.code, "LEC")
          < determine_required_sessions(course).lec
    \/ ScheduledCount(timetable, course.code, "TUT")
          < determine_required_sessions(course).tut
    \/ ScheduledCount(timetable, course.code, "LAB")
          < determine_required_sessions(course).lab
    \/ ScheduledCount(timetable, course.code, "SS")
          < determine_required_sessions(course).ss

\* the record appended to courses_not_scheduled
UnscheduledEntry(course, timetable) ==
    [Department |-> course.Department, Semester |-> course.Semester,
     Code |-> course.code, Name |-> course.name, Faculty |-> course.Faculty,
     Expected |-> determine_required_sessions(course).lec
                  + determine_required_sessions(course).tut
                  + determine_required_sessions(course).lab
                  + determine_required_sessions(course).ss,
     Scheduled |-> ScheduledCount(timetable, course.code, "LEC")
                   + ScheduledCount(timetable, course.code, "TUT")
                   + ScheduledCount(timetable, course.code, "LAB")
                   + ScheduledCount(timetable, course.code, "SS")]

\* dept_courses: the rows of the (department, semester), in file order
DeptCourses(rows, department, semester) ==
    LET OfSection(c) == c.Department = department /\ c.Semester = semester
    IN  SelectSeq(rows, OfSection)

\* the entries the report of one section appends
MissingEntries(dept_courses, timetable) ==
    LET Missing(course) == MissingComponents(course, timetable)
        Entry(j) == UnscheduledEntry(SelectSeq(dept_courses, Missing)[j], timetable)
    IN  [j \in 1 .. Len(SelectSeq(dept_courses, Missing)) |-> Entry(j)]

SectionReport(section, timetable) ==
    MissingEntries(DeptCourses(course_data[input], section.department,
                               section.semester), timetable)

\* the next loop header; on leaving a section its report is written first
MoveTo(next) ==
    /\ sec' = next.sec
    /\ phase' = next.phase
    /\ ci' = next.ci
    /\ k' = next.k
    /\ attempts' = 0
    /\ courses_not_scheduled' =
          IF next.sec # sec
          THEN courses_not_scheduled \o SectionReport(sections[input][sec], schedule'[sec])
          ELSE courses_not_scheduled

\* the while loop or the lab search ended: scheduled is counted when False
LoopEnded(scheduled) ==
    unplaced' = IF scheduled THEN unplaced
                ELSE [unplaced EXCEPT ![sec][ci] = @ + 1]

\* control after one iteration of a while loop
\* a loop that goes on drawing after a session is placed
Continue_UntilBudget(scheduled) ==
    IF ~BudgetLeft(attempts + 1)
    THEN /\ MoveTo(NextSession(sections[input], sec, phase, ci, k + 1))
         /\ LoopEnded(scheduled)
    ELSE /\ attempts' = attempts + 1
         /\ UNCHANGED <<sec, phase, ci, k, courses_not_scheduled, unplaced>>

\* a loop in which a rejected draw costs no attempt
Continue_FreeRetry(scheduled) ==
    IF scheduled
    THEN /\ MoveTo(NextSession(sections[input], sec, phase, ci, k + 1))
         /\ LoopEnded(scheduled)
    ELSE UNCHANGED <<attempts, sec, phase, ci, k, courses_not_scheduled, unplaced>>

Continue(scheduled) ==
    IF scheduled \/ ~BudgetLeft(attempts + 1)
    THEN /\ MoveTo(NextSession(sections[input], sec, phase, ci, k + 1))
         /\ LoopEnded(scheduled)
    ELSE /\ attempts' = attempts + 1
         /\ UNCHANGED <<sec, phase, ci, k, courses_not_scheduled, unplaced>>

\* a placement written to a day that no draw decides
Commit_AnyDay(kind, course, alloc, day, start, duration) ==
    /\ \E d \in Days :
          schedule' = [schedule EXCEPT ![sec] =
              MarkTimetable(@, kind, course, alloc.room_id, d, start, duration)]
    /\ instructor_schedules' =
           MarkInstructor(instructor_schedules, course.Faculty, day, start, duration)
    /\ room_schedule' = alloc.rs

\* a placement is written to the timetable and both registers
Commit(kind, course, alloc, day, start, duration) ==
    /\ schedule' = [schedule EXCEPT ![sec] =
           MarkTimetable(@, kind, course, alloc.room_id, day, start, duration)]
    /\ instructor_schedules' =
           MarkInstructor(instructor_schedules, course.Faculty, day, start, duration)
    /\ room_schedule' = alloc.rs

\* the end of an iteration: the session is placed when the tests passed and a
\* room was found
Place(kind, course, passes, alloc, day, start, duration) ==
    /\ start_slot' = start
    /\ IF passes /\ alloc.room_id # << >>
       THEN Commit(kind, course, alloc, day, start, duration)
       ELSE /\ room_schedule' = IF passes THEN alloc.rs ELSE room_schedule
            /\ UNCHANGED <<schedule, instructor_schedules>>
    /\ Continue(passes /\ alloc.room_id # << >>)

Allocate(course_type, section, course, day, start, duration) ==
    assign_suitable_room(course_type, section.department, section.semester, day,
                         start, duration, facilities[input], enrollment_data[input],
                         schedule[sec], course.code, {}, room_schedule)

\* the state when the first loop of the first sheet is entered
InitRun ==
    /\ input \in Inputs
    /\ sec = NextSession(sections[input], 1, "LEC", 1, 0).sec
    /\ phase = NextSession(sections[input], 1, "LEC", 1, 0).phase
    /\ ci = NextSession(sections[input], 1, "LEC", 1, 0).ci
    /\ k = NextSession(sections[input], 1, "LEC", 1, 0).k
    /\ attempts = 0
    /\ start_slot = Unbound
    /\ schedule = [s \in 1 .. Len(sections[input]) |-> EmptyTimetable]
    /\ instructor_schedules = [f \in Instructors(input) |-> [d \in Days |-> {}]]
    /\ room_schedule = [r \in RoomIds(input) |-> [d \in Days |-> {}]]
    /\ courses_not_scheduled = << >>
    /\ unplaced = [s \in 1 .. Len(sections[input]) |->
                     [c \in 1 .. Len(sections[input][s].courses) |-> 0]]
    /\ all_semester_bases = {SemBase(course_data[input][j].Semester) :
                                j \in 1 .. Len(course_data[input])}
    /\ meal_times = meal_schedules[input]
    /\ call = << >>
    /\ returned = << >>

Init ==
    /\ InitRun
    /\ twin = << >>

\* one iteration of the lecture loop
LecIteration(section, course, timetable, busy, meals, days, starts) ==
    \E day_idx \in days, start \in starts :
        Place("LEC", course,
              /\ check_course_session_spacing(instructor_schedules, timetable,
                     course.Faculty, course.code, day_idx, start)
              /\ NoneReserved(day_idx, start, LECTURE, section.semester,
                              section.department)
              /\ check_instructor_workload(course.Faculty, day_idx, timetable,
                                           course.code)
              /\ LectureSlotsAvailable(busy, timetable, meals, day_idx, start,
                                       section.semester),
              Allocate("LEC", section, course, day_idx, start, LECTURE),
              day_idx, start, LECTURE)

\* an iteration of the lecture loop that draws from days and starts
LecAttemptAt(days, starts) ==
    /\ phase = "LEC"
    /\ LecIteration(sections[input][sec], sections[input][sec].courses[ci],
                    schedule[sec],
                    instructor_schedules[sections[input][sec].courses[ci].Faculty],
                    meal_schedules[input], days, starts)
    /\ UNCHANGED <<input, all_semester_bases, meal_times, call, returned>>

LecAttempt ==
    /\ LecAttemptAt(Days, 0 .. (NumSlots - LECTURE))
    /\ UNCHANGED twin

\* the tutorial loop reads start_slot before any loop has bound it
TutUnboundRaised ==
    /\ phase = "TUT"
    /\ start_slot = Unbound
    /\ phase' = "ERROR"
    /\ UNCHANGED <<input, sec, ci, k, attempts, start_slot, schedule,
                   instructor_schedules, room_schedule, courses_not_scheduled,
                   unplaced, all_semester_bases, meal_times, call, returned>>

TutUnbound ==
    /\ TutUnboundRaised
    /\ UNCHANGED twin

\* one iteration of the tutorial loop: the spacing test reads the start_slot
\* of an earlier iteration, the new start is drawn after it; Unbound in starts
\* stands for no start drawn
TutIteration(section, course, timetable, busy, meals, days, starts) ==
    \E day_idx \in days :
        IF ~ /\ check_course_session_spacing(instructor_schedules, timetable,
                    course.Faculty, course.code, day_idx, start_slot)
             /\ check_instructor_workload(course.Faculty, day_idx, timetable,
                                          course.code)
        THEN /\ Unbound \in starts
             /\ UNCHANGED <<start_slot, schedule, instructor_schedules,
                            room_schedule>>
             /\ Continue(FALSE)
        ELSE \E start \in starts \ {Unbound} :
                Place("TUT", course,
                      /\ NoneReserved(day_idx, start, TUT, section.semester,
                                      section.department)
                      /\ SlotsAvailable(busy, timetable, meals, day_idx, start, TUT,
                                        section.semester),
                      Allocate("TUT", section, course, day_idx, start, TUT),
                      day_idx, start, TUT)

TutAttemptAt(days, starts) ==
    /\ phase = "TUT"
    /\ start_slot # Unbound
    /\ TutIteration(sections[input][sec], sections[input][sec].courses[ci],
                    schedule[sec],
                    instructor_schedules[sections[input][sec].courses[ci].Faculty],
                    meal_schedules[input], days, starts)
    /\ UNCHANGED <<input, all_semester_bases, meal_times, call, returned>>

TutAttempt ==
    /\ TutAttemptAt(Days, {Unbound} \cup (0 .. (NumSlots - TUT)))
    /\ UNCHANGED twin

\* random.shuffle(day_options): every order of the days
DayOrders ==
    {p \in [1 .. NumDays -> Days] : \A a, b \in 1 .. NumDays : p[a] = p[b] => a = b}

\* day -> the starts of available_slots for which a room is found
Roomed(section, course, room_type, available_slots) ==
    [d \in Days |->
        {s \in available_slots[d] :
            Allocate(room_type, section, course, d, s, LAB).room_id # << >>}]

\* a search that takes the last start of the day for which a room is found
LabSearch_LastStart(section, course, room_type, day_options, available_slots, roomed, good, tried) ==
    IF good # {}
    THEN /\ start_slot' = Max(roomed[day_options[Min(good)]])
         /\ Commit("LAB", course,
                   Allocate(room_type, section, course, day_options[Min(good)],
                            start_slot', LAB),
                   day_options[Min(good)], start_slot', LAB)
    ELSE /\ start_slot' = start_slot
         /\ UNCHANGED <<schedule, instructor_schedules, room_schedule>>

\* the days in order, the starts of a day in ascending order, until a room is
\* found: good and tried are the positions in day_options of the days with a
\* roomed start and with an available start
LabSearch(section, course, room_type, day_options, available_slots, roomed, good, tried) ==
    IF good # {}
    THEN /\ start_slot' = Min(roomed[day_options[Min(good)]])
         /\ Commit("LAB", course,
                   Allocate(room_type, section, course, day_options[Min(good)],
                            start_slot', LAB),
                   day_options[Min(good)], start_slot', LAB)
    ELSE /\ start_slot' =
                IF tried = {} THEN start_slot
                ELSE Max(available_slots[day_options[Max(tried)]])
         /\ UNCHANGED <<schedule, instructor_schedules, room_schedule>>

LabPlacement(section, course, room_type, available_slots, roomed, orders) ==
    \E day_options \in orders :
        LabSearch(section, course, room_type, day_options, available_slots, roomed,
                  {n \in 1 .. NumDays : roomed[day_options[n]] # {}},
                  {n \in 1 .. NumDays : available_slots[day_options[n]] # {}})

\* day -> find_available_slots of the day
AvailableSlots(section, course, timetable, busy, meals) ==
    [d \in Days |->
        find_available_slots(timetable, busy, d, LAB, section.semester,
                             section.department, meals)]

LabIteration(section, course, room_type, available_slots, orders) ==
    LabPlacement(section, course, room_type, available_slots,
                 Roomed(section, course, room_type, available_slots), orders)

\* one lab session
LabSessionIn(orders) ==
    /\ phase = "LAB"
    /\ LabIteration(sections[input][sec], sections[input][sec].courses[ci],
           determine_room_type(sections[input][sec].courses[ci]),
           AvailableSlots(sections[input][sec], sections[input][sec].courses[ci],
               schedule[sec],
               instructor_schedules[sections[input][sec].courses[ci].Faculty],
               meal_schedules[input]),
           orders)
    /\ MoveTo(NextSession(sections[input], sec, phase, ci, k + 1))
    /\ LoopEnded(ScheduledCount(schedule'[sec],
                                sections[input][sec].courses[ci].code, "LAB")
                    > ScheduledCount(schedule[sec],
                                     sections[input][sec].courses[ci].code, "LAB"))
    /\ UNCHANGED <<input, all_semester_bases, meal_times, call, returned>>

LabSession ==
    /\ LabSessionIn(DayOrders)
    /\ UNCHANGED twin

\* one iteration of the self-study loop
SelfStudyIteration(section, course, timetable, busy, meals, days, starts) ==
    \E day_idx \in days, start \in starts :
        Place("SS", course,
              /\ NoneReserved(day_idx, start, SELF_STUDY, section.semester,
                              section.department)
              /\ SlotsAvailable(busy, timetable, meals, day_idx, start, SELF_STUDY,
                                section.semester),
              Allocate("SELF_STUDY", section, course, day_idx, start, SELF_STUDY),
              day_idx, start, SELF_STUDY)

SelfStudyAttemptAt(days, starts) ==
    /\ phase = "SS"
    /\ SelfStudyIteration(sections[input][sec], sections[input][sec].courses[ci],
                          schedule[sec],
                          instructor_schedules[sections[input][sec].courses[ci].Faculty],
                          meal_schedules[input], days, starts)
    /\ UNCHANGED <<input, all_semester_bases, meal_times, call, returned>>

SelfStudyAttempt ==
    /\ SelfStudyAttemptAt(Days, 0 .. (NumSlots - SELF_STUDY))
    /\ UNCHANGED twin

Next ==
    \/ LecAttempt
    \/ TutUnbound
    \/ TutAttempt
    \/ LabSession
    \/ SelfStudyAttempt

Spec == Init /\ [][Next]_vars

\* the run is one sequential process that takes its next step while it has
\* one: weak fairness of Next, written out with the enabling condition of
\* Next, which has a step in every loop phase and none in DONE and ERROR
FairSpec == Spec /\ ([]<>(phase \in {"DONE", "ERROR"}) \/ []<><<Next>>_vars)

(***************************************************************************)
(* compute_meal_times on its own: the meal breaks of any set of semester   *)
(* bases, before a catalog is scheduled.                                   *)
(***************************************************************************)
MealInit ==
    /\ all_semester_bases \in (SUBSET (1 .. MaxBase)) \ {{}}
    /\ meal_times = << >>
    /\ input = "lab"
    /\ sec = 1
    /\ phase = "MEALS"
    /\ ci = 0
    /\ k = 0
    /\ attempts = 0
    /\ start_slot = Unbound
    /\ schedule = << >>
    /\ instructor_schedules = << >>
    /\ room_schedule = << >>
    /\ courses_not_scheduled = << >>
    /\ unplaced = << >>
    /\ call = << >>
    /\ returned = << >>
    /\ twin = << >>

\* meal_schedules = compute_meal_times(all_semester_bases)
ComputeMeals ==
    /\ phase = "MEALS"
    /\ DOMAIN meal_times = {}
    /\ meal_times' = compute_meal_times(all_semester_bases)
    /\ UNCHANGED <<input, sec, phase, ci, k, attempts, start_slot, schedule,
                   instructor_schedules, room_schedule, courses_not_scheduled,
                   unplaced, all_semester_bases, call, returned, twin>>

MealNext == ComputeMeals

MealSpec == MealInit /\ [][MealNext]_vars

(***************************************************************************)
(* The course utility functions on their own: one call of                  *)
(* determine_required_sessions or determine_course_priority on any row of  *)
(* a catalog.                                                              *)
(***************************************************************************)
\* no catalog is in process while a function is called on its own
NoRun ==
    /\ input = "lab"
    /\ sec = 1
    /\ phase = "CALL"
    /\ ci = 0
    /\ k = 0
    /\ attempts = 0
    /\ start_slot = Unbound
    /\ schedule = << >>
    /\ instructor_schedules = << >>
    /\ room_schedule = << >>
    /\ courses_not_scheduled = << >>
    /\ unplaced = << >>
    /\ all_semester_bases = {}
    /\ meal_times = << >>

NoRunChange ==
    UNCHANGED <<input, sec, phase, ci, k, attempts, start_slot, schedule,
                instructor_schedules, room_schedule, courses_not_scheduled,
                unplaced, all_semester_bases, meal_times, twin>>

BCS == <<"B", "-", "C", "S">>
CourseCodes == {CS301, EC201, MA101, B1A, BCS}

\* rows of one (department, semester) of a catalog
CatalogRows ==
    {Course("CS", Sem4, CS301, FacX, 1, 0, 2, 0),
     Course("CS", Sem4, MA101, FacX, 3, 0, 0, 0),
     Course("CS", Sem4, EC201, FacX, 1, 1, 0, 0),
     Course("CS", Sem4, B1A, FacX, 1, 0, 2, 0),
     Course("CS", Sem4, CS101, FacX, 1, 0, 0, 0)}

\* the slots of a session of each kind
KindLength(kind) ==
    CASE kind = "LEC" -> LECTURE
      [] kind = "LAB" -> LAB
      [] kind = "TUT" -> TUT
      [] kind = "SS" -> SELF_STUDY

\* a section timetable that holds one session of instructor X on Monday, and
\* a candidate (day, start) for a session of CS301
SpacingCalls ==
    UNION {{[timetable |-> MarkTimetable(EmptyTimetable, kind,
                               Course("CS", Sem4, code, FacX, 1, 1, 2, 4),
                               <<"DEFAULT_ROOM">>, 0, e, KindLength(kind)),
             instructor_schedule |->
                 MarkInstructor([f \in {FacX} |-> [d \in Days |-> {}]],
                                FacX, 0, e, KindLength(kind)),
             instructor |-> FacX, course_code |-> CS301,
             day |-> day, start_slot |-> start] :
                e \in 0 .. (NumSlots - KindLength(kind)), day \in Days,
                start \in Slots} :
           kind \in {"LEC", "TUT", "LAB", "SS"}, code \in {CS301, MA101}}

\* an inventory with a library, and requests of every course type with any
\* set of excluded rooms, while at most one room is taken at the time asked
AllocRooms ==
    <<Room("LB", 200, "LIBRARY", 100), Room("R1", 60, "LECTURE_ROOM", 101),
      Room("S1", 120, "SEATER_120", 102), Room("L1", 35, "COMPUTER_LAB", 201),
      Room("L2", 35, "COMPUTER_LAB", 202)>>

AllocRoomIds == {AllocRooms[j].id : j \in 1 .. Len(AllocRooms)}

AllocCalls ==
    {[course_type |-> type, department |-> "CS", semester |-> Sem4, day |-> 0,
      start_slot |-> 0, duration |-> 2, rooms |-> AllocRooms,
      enrollment_data |-> enrollment_data[i], timetable |-> EmptyTimetable,
      excluded_rooms |-> excluded,
      rs |-> [r \in AllocRoomIds |->
                [d \in Days |-> IF r \in taken /\ d = 0 THEN {0, 1} ELSE {}]]] :
         type \in {"LEC", "COMPUTER_LAB"}, i \in {"lab", "depts"},
         excluded \in SUBSET AllocRoomIds,
         taken \in {{}} \cup {{r} : r \in AllocRoomIds}}

UtilityInit ==
    /\ \/ call \in {[course |-> Course("CS", Sem4, code, FacX, l, t, p, s)] :
                       code \in CourseCodes, l \in 0 .. MaxCredit,
                       t \in 0 .. MaxCredit, p \in 0 .. MaxCredit,
                       s \in 0 .. MaxCredit}
       \/ \E n \in 1 .. MaxRows :
             call \in {[rows |-> r] : r \in [1 .. n -> CatalogRows]}
       \/ call \in SpacingCalls
       \/ \E code \in {CS301, B1A} :
             call \in {[c EXCEPT !.course_code = code] :
                          c \in {a @@ [course_code |-> << >>] : a \in AllocCalls}}
    /\ returned = << >>
    /\ twin = << >>
    /\ NoRun

\* determine_required_sessions(course)
RequiredSessionsCall ==
    /\ phase = "CALL"
    /\ DOMAIN returned = {}
    /\ "course" \in DOMAIN call
    /\ returned' = [fn |-> "determine_required_sessions",
                    value |-> determine_required_sessions(call.course)]
    /\ UNCHANGED call
    /\ NoRunChange

\* determine_course_priority(course)
CoursePriorityCall ==
    /\ phase = "CALL"
    /\ DOMAIN returned = {}
    /\ "course" \in DOMAIN call
    /\ returned' = [fn |-> "determine_course_priority",
                    value |-> determine_course_priority(call.course)]
    /\ UNCHANGED call
    /\ NoRunChange

\* the course order of a sheet: lab courses first, then the sort by priority
PrioritizeCall ==
    /\ phase = "CALL"
    /\ DOMAIN returned = {}
    /\ "rows" \in DOMAIN call
    /\ returned' = [fn |-> "prioritized_courses",
                    value |-> PrioritizedCourses(call.rows, "CS", Sem4)]
    /\ UNCHANGED call
    /\ NoRunChange

\* check_course_session_spacing(instructor_schedule, timetable, ...)
SpacingCall ==
    /\ phase = "CALL"
    /\ DOMAIN returned = {}
    /\ "instructor_schedule" \in DOMAIN call
    /\ returned' = [fn |-> "check_course_session_spacing",
                    value |-> check_course_session_spacing(
                                  call.instructor_schedule, call.timetable,
                                  call.instructor, call.course_code,
                                  call.day, call.start_slot)]
    /\ UNCHANGED call
    /\ NoRunChange

\* assign_suitable_room(course_type, department, semester, ...)
AllocateCall ==
    /\ phase = "CALL"
    /\ DOMAIN returned = {}
    /\ "excluded_rooms" \in DOMAIN call
    /\ returned' = [fn |-> "assign_suitable_room",
                    value |-> assign_suitable_room(
                                  call.course_type, call.department,
                                  call.semester, call.day, call.start_slot,
                                  call.duration, call.rooms,
                                  call.enrollment_data, call.timetable,
                                  call.course_code, call.excluded_rooms,
                                  call.rs)]
    /\ UNCHANGED call
    /\ NoRunChange

UtilityNext ==
    \/ AllocateCall
    \/ SpacingCall
    \/ RequiredSessionsCall
    \/ CoursePriorityCall
    \/ PrioritizeCall

UtilitySpec == UtilityInit /\ [][UtilityNext]_vars

(***************************************************************************)
(* The allocator and the section arithmetic on their own: one call of      *)
(* assign_suitable_room on an inventory with rooms of every type, some of  *)
(* them taken at the time asked or used on the other day, or one row of    *)
(* updated_batches.csv.                                                    *)
(***************************************************************************)
Inventory ==
    <<Room("LB", 200, "LIBRARY", 100), Room("R1", 60, "LECTURE_ROOM", 101),
      Room("R2", 40, "LECTURE_ROOM", 103), Room("S1", 120, "SEATER_120", 102),
      Room("L1", 35, "COMPUTER_LAB", 201), Room("L4", 35, "COMPUTER_LAB", 204),
      Room("L2", 35, "COMPUTER_LAB", 202), Room("L3", 35, "COMPUTER_LAB", 203),
      Room("H1", 30, "HARDWARE_LAB", 301), Room("H2", 30, "HARDWARE_LAB", 302)>>

InventoryIds == {Inventory[j].id : j \in 1 .. Len(Inventory)}

\* updated_batches.csv and elective_registration.csv: none, a section of 30
\* with an elective of 100, a section of 70 with an elective of 30
Enrollments ==
    {import_enrollment_data(<< >>, << >>),
     import_enrollment_data(<<[Department |-> "CS", Semester |-> Sem4,
                               Total_Students |-> 30, MaxBatchSize |-> 60]>>,
                            <<[code |-> B1A, total |-> 100]>>),
     import_enrollment_data(<<[Department |-> "CS", Semester |-> Sem4,
                               Total_Students |-> 70, MaxBatchSize |-> 70]>>,
                            <<[code |-> B1A, total |-> 30]>>)}

\* at most two rooms are taken at the time asked: a session of another
\* section; the rooms of used held a lecture on the other day
InventoryCalls ==
    {[course_type |-> type, department |-> "CS", semester |-> Sem4, day |-> 0,
      start_slot |-> 0, duration |-> KindLength("TUT"), rooms |-> Inventory,
      enrollment_data |-> e, timetable |-> EmptyTimetable,
      course_code |-> code, excluded_rooms |-> excluded,
      rs |-> [r \in InventoryIds |->
                [d \in Days |->
                    IF d = 0 THEN (IF r \in taken THEN {0, 1} ELSE {})
                    ELSE IF d = 1 /\ r \in used THEN {0, 1, 2} ELSE {}]]] :
         type \in {"LEC", "TUT", "SELF_STUDY", "COMPUTER_LAB", "HARDWARE_LAB"},
         e \in Enrollments, code \in {CS301, B1A},
         excluded \in {{}, {"R1"}, {"L2"}},
         taken \in {t \in SUBSET InventoryIds : Cardinality(t) <= 2},
         used \in SUBSET {"R1", "R2", "S1"}}

InventoryInit ==
    /\ \/ call \in InventoryCalls
       \/ call \in {[Department |-> "CS", Semester |-> Sem4,
                      Total_Students |-> t, MaxBatchSize |-> m] :
                         t \in 1 .. MaxStudents, m \in 1 .. MaxStudents}
    /\ returned = << >>
    /\ twin = << >>
    /\ NoRun

\* import_enrollment_data on a file of one row
EnrollmentCall ==
    /\ phase = "CALL"
    /\ DOMAIN returned = {}
    /\ "Total_Students" \in DOMAIN call
    /\ returned' = [fn |-> "import_enrollment_data",
                    value |-> import_enrollment_data(<<call>>, << >>)
                                  [<<call.Department, call.Semester>>]]
    /\ UNCHANGED call
    /\ NoRunChange

InventoryNext ==
    \/ AllocateCall
    \/ EnrollmentCall

InventorySpec == InventoryInit /\ [][InventoryNext]_vars

(***************************************************************************)
(* The engine at work on sheets that are already full: earlier courses of  *)
(* a sheet, taught by an instructor of their own, hold every slot of the   *)
(* sheet outside the breaks when the courses of the catalog are reached.   *)
(***************************************************************************)
FILL == <<"F", "I", "L", "L">>

\* the instructor of the earlier courses of sheet s
FillFaculty(s) == IF s = 1 THEN <<"F">> ELSE <<"G">>

\* the slots from x to the next break or the end of the day
RunLength(meals, semester, x) ==
    Min({y \in x .. NumSlots :
            y = NumSlots \/ is_break_period(meals, TimeSlot(y), semester)}) - x

\* lectures and tutorials of the earlier courses from (d, x) on, each in the
\* room the allocator grants; st is [tt, rs]
RECURSIVE FillFrom(_, _, _, _, _, _)
FillFrom(st, i, s, course, d, x) ==
    IF d >= NumDays THEN st
    ELSE IF x >= NumSlots THEN FillFrom(st, i, s, course, d + 1, 0)
    ELSE LET run == RunLength(meal_schedules[i], sections[i][s].semester, x)
             kind == IF run \in {2, 4} THEN "TUT" ELSE "LEC"
             alloc == assign_suitable_room(kind, sections[i][s].department,
                          sections[i][s].semester, d, x, KindLength(kind),
                          facilities[i], enrollment_data[i], st.tt, FILL, {},
                          st.rs)
         IN  IF run < 2 \/ alloc.room_id = << >>
             THEN FillFrom(st, i, s, course, d, x + 1)
             ELSE FillFrom([tt |-> MarkTimetable(st.tt, kind, course,
                                       alloc.room_id, d, x, KindLength(kind)),
                            rs |-> alloc.rs],
                           i, s, course, d, x + KindLength(kind))

\* sheet by sheet: the sheets in full are filled, the others left empty
RECURSIVE FillSheets(_, _, _, _)
FillSheets(i, full, s, st) ==
    IF s > Len(sections[i]) THEN st
    ELSE LET filled ==
                 IF s \in full
                 THEN FillFrom([tt |-> EmptyTimetable, rs |-> st.rs], i, s,
                               Course(sections[i][s].department,
                                      sections[i][s].semester, FILL,
                                      FillFaculty(s), 3, 1, 0, 0), 0, 0)
                 ELSE [tt |-> EmptyTimetable, rs |-> st.rs]
         IN  FillSheets(i, full, s + 1,
                        [tts |-> Append(st.tts, filled.tt), rs |-> filled.rs])

\* a timetable without a free slot outside the breaks
IsFull(i, s, timetable) ==
    \A d \in Days, x \in Slots :
        \/ timetable[d][x].type # None
        \/ is_break_period(meal_schedules[i], TimeSlot(x), sections[i][s].semester)

FullInitOf(i, full, st) ==
    /\ \A s \in full : IsFull(i, s, st.tts[s])
    /\ input = i
    /\ schedule = st.tts
    /\ room_schedule = st.rs
    /\ instructor_schedules =
           [f \in Instructors(i) \cup {FillFaculty(s) : s \in full} |->
               [d \in Days |->
                   IF \E s \in full : f = FillFaculty(s)
                   THEN {x \in Slots :
                           \E s \in full : /\ f = FillFaculty(s)
                                           /\ st.tts[s][d][x].type # None}
                   ELSE {}]]

FullInit ==
    /\ \E i \in Inputs :
          \E full \in (SUBSET (1 .. Len(sections[i]))) \ {{}} :
              FullInitOf(i, full,
                  FillSheets(i, full, 1,
                      [tts |-> << >>,
                       rs |-> [r \in RoomIds(i) |-> [d \in Days |-> {}]]]))
    /\ sec = NextSession(sections[input], 1, "LEC", 1, 0).sec
    /\ phase = NextSession(sections[input], 1, "LEC", 1, 0).phase
    /\ ci = NextSession(sections[input], 1, "LEC", 1, 0).ci
    /\ k = NextSession(sections[input], 1, "LEC", 1, 0).k
    /\ attempts = 0
    /\ start_slot = Unbound
    /\ courses_not_scheduled = << >>
    /\ unplaced = [s \in 1 .. Len(sections[input]) |->
                     [c \in 1 .. Len(sections[input][s].courses) |-> 0]]
    /\ all_semester_bases = {SemBase(course_data[input][j].Semester) :
                                j \in 1 .. Len(course_data[input])}
    /\ meal_times = meal_schedules[input]
    /\ call = << >>
    /\ returned = << >>
    /\ twin = << >>

FullSpec == FullInit /\ [][Next]_vars

(***************************************************************************)
(* A run and its repetition: the first run draws freely and notes every    *)
(* draw and the state it leads to; the second run starts from the same     *)
(* files and is given the draws of the first, one by one.                  *)
(***************************************************************************)
TwinInputs == Inputs

\* the starts the first run draws from: two that overlap, one further on,
\* one next to the lunch break
TwinStarts == {0, 1, 6, 8}

\* what a run computes: timetables, registers, unscheduled list and the
\* position in the loops
engine == <<sec, phase, ci, k, attempts, start_slot, schedule,
            instructor_schedules, room_schedule, courses_not_scheduled, unplaced>>

TwinInit ==
    /\ InitRun
    /\ input \in TwinInputs
    /\ twin = [run |-> 1, history |-> << >>, pos |-> 1]

\* a randint pair (start Unbound: none drawn) or a shuffle of the days
Draw(day, start, order) == [day |-> day, start |-> start, order |-> order]

\* the step of the engine that receives the draw
StepWith(draw) ==
    \/ LecAttemptAt({draw.day}, {draw.start})
    \/ TutUnboundRaised
    \/ TutAttemptAt({draw.day}, {draw.start})
    \/ LabSessionIn({draw.order})
    \/ SelfStudyAttemptAt({draw.day}, {draw.start})

DrawsOf(loop) ==
    CASE loop = "LEC" -> {Draw(d, x, << >>) : d \in Days, x \in TwinStarts}
      [] loop = "TUT" ->
             {Draw(d, x, << >>) : d \in Days, x \in {Unbound} \cup TwinStarts}
      [] loop = "LAB" -> {Draw(0, 0, p) : p \in DayOrders}
      [] loop = "SS" -> {Draw(d, x, << >>) : d \in Days, x \in TwinStarts}
      [] OTHER -> {}

FirstRun ==
    /\ twin.run = 1
    /\ \E draw \in DrawsOf(phase) :
          /\ StepWith(draw)
          /\ twin' = [twin EXCEPT !.history =
                          Append(@, [draw |-> draw, after |-> engine'])]

\* the first run is over: the files are read again
Restart ==
    /\ twin.run = 1
    /\ phase \in {"DONE", "ERROR"}
    /\ twin' = [twin EXCEPT !.run = 2]
    /\ sec' = NextSession(sections[input], 1, "LEC", 1, 0).sec
    /\ phase' = NextSession(sections[input], 1, "LEC", 1, 0).phase
    /\ ci' = NextSession(sections[input], 1, "LEC", 1, 0).ci
    /\ k' = NextSession(sections[input], 1, "LEC", 1, 0).k
    /\ attempts' = 0
    /\ start_slot' = Unbound
    /\ schedule' = [s \in 1 .. Len(sections[input]) |-> EmptyTimetable]
    /\ instructor_schedules' = [f \in Instructors(input) |-> [d \in Days |-> {}]]
    /\ room_schedule' = [r \in RoomIds(input) |-> [d \in Days |-> {}]]
    /\ courses_not_scheduled' = << >>
    /\ unplaced' = [s \in 1 .. Len(sections[input]) |->
                      [c \in 1 .. Len(sections[input][s].courses) |-> 0]]
    /\ UNCHANGED <<input, all_semester_bases, meal_times, call, returned>>

SecondRun ==
    /\ twin.run = 2
    /\ twin.pos <= Len(twin.history)
    /\ StepWith(twin.history[twin.pos].draw)
    /\ twin' = [twin EXCEPT !.pos = @ + 1]

TwinNext ==
    \/ FirstRun
    \/ Restart
    \/ SecondRun

TwinSpec == TwinInit /\ [][TwinNext]_vars

(***************************************************************************)
(* The sessions a timetable records: a session starts at the slot that     *)
(* carries a course code and covers as many slots as its kind is long.     *)
(***************************************************************************)
\* <<section, day, start>> of every placed session
Sessions ==
    {p \in (DOMAIN schedule) \X Days \X Slots :
        schedule[p[1]][p[2]][p[3]].code # << >>}

RecordOf(p) == schedule[p[1]][p[2]][p[3]]

SlotsOf(p) == Covered(p[3], KindLength(RecordOf(p).type))

Distance(a, b) == IF a >= b THEN a - b ELSE b - a

Finished == phase = "DONE"

(***************************************************************************)
(* C1.  No two placed sessions of the same instructor, of any kind and in  *)
(* any sections, cover the same (day, slot).                               *)
(***************************************************************************)
C1_InstructorConflictFree ==
    \A p, q \in Sessions :
        (p # q /\ RecordOf(p).faculty = RecordOf(q).faculty /\ p[2] = q[2])
            => SlotsOf(p) \cap SlotsOf(q) = {}

\* one instructor holds sessions in two sections on the same day
C1_Witness ==
    \E p, q \in Sessions :
        /\ p[1] # q[1]
        /\ p[2] = q[2]
        /\ RecordOf(p).faculty = RecordOf(q).faculty

(***************************************************************************)
(* C2.  With a non-empty room inventory, no two placed sessions of any     *)
(* sections occupy the same room at the same (day, slot).                  *)
(***************************************************************************)
C2_RoomConflictFree ==
    facilities[input] # << >>
        => \A p, q \in Sessions :
              (/\ p # q
               /\ p[2] = q[2]
               /\ Range(RecordOf(p).classroom) \cap Range(RecordOf(q).classroom) # {})
                  => SlotsOf(p) \cap SlotsOf(q) = {}

\* two sections use the same room on the same day
C2_Witness ==
    /\ facilities[input] # << >>
    /\ \E p, q \in Sessions :
          /\ p[1] # q[1]
          /\ p[2] = q[2]
          /\ RecordOf(p).classroom = RecordOf(q).classroom

(***************************************************************************)
(* C3.  No covered slot of a placed session starts in the morning break    *)
(* 10:30-11:00 or in the meal window of the first digit of the semester of *)
(* its section.                                                            *)
(***************************************************************************)
StartsInBreak(slot, semester) ==
    LET minute == DAY_START + slot * TIME_INCREMENT
        window == meal_schedules[input][SemBase(semester)]
    IN  \/ (630 <= minute /\ minute < 660)
        \/ (window[1] <= minute /\ minute < window[2])

C3_NoSessionInBreak ==
    \A p \in Sessions :
        \A x \in SlotsOf(p) :
            ~StartsInBreak(x, sections[input][p[1]].semester)

\* a session ends right where a break starts and one starts where a break ends
C3_Witness ==
    \E p, q \in Sessions :
        /\ p[3] + KindLength(RecordOf(p).type) < NumSlots
        /\ StartsInBreak(p[3] + KindLength(RecordOf(p).type),
                         sections[input][p[1]].semester)
        /\ q[3] > 0
        /\ StartsInBreak(q[3] - 1, sections[input][q[1]].semester)

(***************************************************************************)
(* C4.  At the end of a run no LEC session of a course has another LEC or  *)
(* TUT session of the same course and instructor, in any section, on the   *)
(* same day with a start within 6 slots of its own.                        *)
(***************************************************************************)
C4_SpacingInAllSections ==
    Finished
        => \A p, q \in Sessions :
              (/\ p # q
               /\ RecordOf(p).type = "LEC"
               /\ RecordOf(q).type \in {"LEC", "TUT"}
               /\ RecordOf(p).code = RecordOf(q).code
               /\ RecordOf(p).faculty = RecordOf(q).faculty
               /\ p[2] = q[2])
                  => Distance(p[3], q[3]) > 6

(***************************************************************************)
(* C5.  At the end of a run the slot before and the slot after every LEC   *)
(* session hold no LEC, LAB or TUT of the same section timetable, sessions *)
(* placed after the lecture included.                                      *)
(***************************************************************************)
BufferClear(timetable, day, start) ==
    /\ start > 0 => timetable[day][start - 1].type \notin {"LEC", "LAB", "TUT"}
    /\ start + LECTURE < NumSlots
          => timetable[day][start + LECTURE].type \notin {"LEC", "LAB", "TUT"}

C5_BufferAtEnd ==
    Finished
        => \A p \in Sessions :
              RecordOf(p).type = "LEC" => BufferClear(schedule[p[1]], p[2], p[3])

(***************************************************************************)
(* C6.  At the end of a run every instructor holds on every day at most 2  *)
(* non-elective LEC/LAB/TUT sessions over all sections, and at most 3 with *)
(* the electives counted once per code.                                    *)
(***************************************************************************)
LoadSessions(f, d) ==
    {p \in Sessions :
        /\ p[2] = d
        /\ RecordOf(p).faculty = f
        /\ RecordOf(p).type \in {"LEC", "LAB", "TUT"}}

C6_DailyLoad ==
    Finished
        => \A f \in DOMAIN instructor_schedules, d \in Days :
              LET regular == {p \in LoadSessions(f, d) :
                                 ~is_elective_course(RecordOf(p).code)}
                  electives == {RecordOf(p).code : p \in LoadSessions(f, d) \ regular}
              IN  /\ Cardinality(regular) <= 2
                  /\ Cardinality(regular) + Cardinality(electives) <= 3

(***************************************************************************)
(* C7.  In every section, for every course and kind, the sessions placed   *)
(* never exceed the sessions determine_required_sessions asks for.         *)
(***************************************************************************)
PlacedCount(s, code, kind) ==
    Cardinality({p \in Sessions :
                    /\ p[1] = s
                    /\ RecordOf(p).code = code
                    /\ RecordOf(p).type = kind})

RequiredCount(course, kind) ==
    CASE kind = "LEC" -> determine_required_sessions(course).lec
      [] kind = "TUT" -> determine_required_sessions(course).tut
      [] kind = "LAB" -> determine_required_sessions(course).lab
      [] kind = "SS" -> determine_required_sessions(course).ss

C7_PlacedWithinRequired ==
    \A s \in DOMAIN schedule :
        \A c \in 1 .. Len(sections[input][s].courses) :
            \A kind \in {"LEC", "TUT", "LAB", "SS"} :
                PlacedCount(s, sections[input][s].courses[c].code, kind)
                    <= RequiredCount(sections[input][s].courses[c], kind)

\* a course with two required lectures has both placed
C7_Witness ==
    \E s \in DOMAIN schedule :
        \E c \in 1 .. Len(sections[input][s].courses) :
            /\ RequiredCount(sections[input][s].courses[c], "LEC") = 2
            /\ PlacedCount(s, sections[input][s].courses[c].code, "LEC") = 2

(***************************************************************************)
(* C8.  Whenever a lab is given the pair "A,B", A and B are distinct rooms *)
(* of the same type on the same floor with room numbers that differ by 1,  *)
(* both were free for the whole duration and both have every covered slot  *)
(* added to their occupied set of the day.                                 *)
(***************************************************************************)
PairSound(a, b, d, start) ==
    /\ a # b
    /\ RoomOf(input, a).type = RoomOf(input, b).type
    /\ RoomOf(input, a).roomNumber \div 100 = RoomOf(input, b).roomNumber \div 100
    /\ Distance(RoomOf(input, a).roomNumber, RoomOf(input, b).roomNumber) = 1
    /\ \A x \in Covered(start, LAB) :
          /\ x \notin room_schedule[a][d]
          /\ x \notin room_schedule[b][d]
          /\ x \in room_schedule'[a][d]
          /\ x \in room_schedule'[b][d]

C8_PairedRooms ==
    [][\A s \in DOMAIN schedule, d \in Days, x \in Slots :
          (/\ schedule[s][d][x].type = None
           /\ schedule'[s][d][x].type = "LAB"
           /\ Len(schedule'[s][d][x].classroom) = 2)
              => PairSound(schedule'[s][d][x].classroom[1],
                           schedule'[s][d][x].classroom[2], d, x)]_vars

\* a lab was given a pair of rooms that both hold its slots
C8_Witness ==
    \E p \in Sessions :
        /\ RecordOf(p).type = "LAB"
        /\ Len(RecordOf(p).classroom) = 2
        /\ \A r \in Range(RecordOf(p).classroom) :
              SlotsOf(p) \subseteq room_schedule[r][p[2]]

(***************************************************************************)
(* C9.  Every slot of a section timetable with a kind belongs to exactly   *)
(* one session: a contiguous run on one day, as long as the kind, whose    *)
(* first slot carries code, name, faculty and room and whose other slots   *)
(* carry the same kind and empty text fields.                              *)
(***************************************************************************)
\* the slots start .. start + length - 1 of the day form one session
IsSession(timetable, d, start) ==
    LET first == timetable[d][start]
    IN  /\ first.type \in {"LEC", "LAB", "TUT", "SS"}
        /\ start + KindLength(first.type) <= NumSlots
        /\ first.code # << >>
        /\ first.name # ""
        /\ first.faculty # << >>
        /\ first.classroom # << >>
        /\ \A x \in (start + 1) .. (start + KindLength(first.type) - 1) :
              timetable[d][x] = [EmptySlot EXCEPT !.type = first.type]

C9_SlotsFormSessions ==
    \A s \in DOMAIN schedule, d \in Days, x \in Slots :
        schedule[s][d][x].type # None
            => Cardinality({start \in 0 .. x :
                               /\ IsSession(schedule[s], d, start)
                               /\ x < start + KindLength(schedule[s][d][start].type)
                               /\ schedule[s][d][start].type = schedule[s][d][x].type})
                 = 1

\* a session starts right where another session of the section ends
C9_Witness ==
    \E p, q \in Sessions :
        /\ p[1] = q[1]
        /\ p[2] = q[2]
        /\ RecordOf(p).type # RecordOf(q).type
        /\ q[3] = p[3] + KindLength(RecordOf(p).type)

(***************************************************************************)
(* C10.  The occupied set of every instructor and day is exactly the union *)
(* of the slot ranges of the sessions placed so far for that instructor on *)
(* that day in all sections and departments.                               *)
(***************************************************************************)
C10_InstructorRegisterExact ==
    \A f \in DOMAIN instructor_schedules, d \in Days :
        instructor_schedules[f][d]
            = UNION {SlotsOf(p) : p \in {q \in Sessions :
                                           q[2] = d /\ RecordOf(q).faculty = f}}

\* an instructor holds sessions of two departments on one day
C10_Witness ==
    \E p, q \in Sessions :
        /\ sections[input][p[1]].department # sections[input][q[1]].department
        /\ p[2] = q[2]
        /\ RecordOf(p).faculty = RecordOf(q).faculty

(***************************************************************************)
(* C11.  The occupied set of every room and day is exactly the union of    *)
(* the slot ranges of the sessions placed in that room on that day in all  *)
(* timetables: no slot is reserved without a session written, and no       *)
(* session holds a room without its slots reserved.                        *)
(***************************************************************************)
C11_RoomRegisterExact ==
    \A r \in DOMAIN room_schedule, d \in Days :
        room_schedule[r][d]
            = UNION {SlotsOf(p) : p \in {q \in Sessions :
                                           /\ q[2] = d
                                           /\ r \in Range(RecordOf(q).classroom)}}

\* a room holds a lecture and a tutorial, or two lectures, on one day
C11_Witness ==
    \E r \in DOMAIN room_schedule, d \in Days :
        Cardinality(room_schedule[r][d]) >= LECTURE + TUT

(***************************************************************************)
(* C12.  Within a section no lecture or tutorial placement attempt comes   *)
(* before a lab placement attempt: the labs of all courses are attempted   *)
(* first, then the lectures, then the tutorials, then self study.          *)
(***************************************************************************)
C12_LabsFirst ==
    [][~(phase \in {"LEC", "TUT"} /\ phase' = "LAB" /\ sec' = sec)]_vars

(***************************************************************************)
(* C12 as amended.  Within a section the courses are visited in priority   *)
(* order and each course has its lectures attempted first, then its        *)
(* tutorials, then its labs; self study of all courses is attempted in a   *)
(* last pass after the labs of the last course.                            *)
(***************************************************************************)
KindRank(ph) ==
    CASE ph = "LEC" -> 1 [] ph = "TUT" -> 2 [] ph = "LAB" -> 3 [] ph = "SS" -> 4

C12_CourseByCourse ==
    [][(phase' \in {"LEC", "TUT", "LAB", "SS"} /\ sec' = sec)
          => \/ phase = "SS" /\ phase' = "SS" /\ ci' >= ci
             \/ phase # "SS" /\ phase' = "SS"
             \/ phase # "SS" /\ phase' # "SS" /\ ci' > ci
             \/ /\ phase # "SS" /\ phase' # "SS" /\ ci' = ci
                /\ KindRank(phase') >= KindRank(phase)]_vars

\* a lab is about to be attempted after the lecture of the course was placed
C12_Witness ==
    /\ phase = "LAB"
    /\ \E p \in Sessions :
          /\ p[1] = sec
          /\ RecordOf(p).type = "LEC"
          /\ RecordOf(p).code = sections[input][sec].courses[ci].code

(***************************************************************************)
(* C13.  The placement engine never raises: whatever the catalog, a        *)
(* constraint that fails is a rejected attempt and the run goes on.        *)
(***************************************************************************)
C13_NeverRaises == phase # "ERROR"

(***************************************************************************)
(* C14.  Once a section is processed, a course of its department and       *)
(* semester is in the unscheduled list for it exactly when some kind has   *)
(* fewer sessions placed in the section timetable than required; the entry *)
(* gives the sessions required over the four kinds and the sessions        *)
(* placed, and the difference is the number of sessions whose search ended *)
(* without a placement.                                                    *)
(***************************************************************************)
Kinds == {"LEC", "TUT", "LAB", "SS"}

RequiredTotal(course) ==
    RequiredCount(course, "LEC") + RequiredCount(course, "TUT")
        + RequiredCount(course, "LAB") + RequiredCount(course, "SS")

PlacedTotal(s, code) ==
    PlacedCount(s, code, "LEC") + PlacedCount(s, code, "TUT")
        + PlacedCount(s, code, "LAB") + PlacedCount(s, code, "SS")

\* the entries section s owes to the list, in catalog order
DeficitEntries(s) ==
    LET Short(course) ==
            \E kind \in Kinds :
                PlacedCount(s, course.code, kind) < RequiredCount(course, kind)
        short == SelectSeq(DeptCourses(course_data[input],
                                       sections[input][s].department,
                                       sections[input][s].semester), Short)
    IN  [j \in 1 .. Len(short) |->
            [Department |-> sections[input][s].department,
             Semester |-> sections[input][s].semester,
             Code |-> short[j].code, Name |-> short[j].name,
             Faculty |-> short[j].Faculty,
             Expected |-> RequiredTotal(short[j]),
             Scheduled |-> PlacedTotal(s, short[j].code)]]

RECURSIVE ReportedUpTo(_)
ReportedUpTo(n) ==
    IF n = 0 THEN << >> ELSE ReportedUpTo(n - 1) \o DeficitEntries(n)

C14_UnscheduledReport ==
    /\ courses_not_scheduled = ReportedUpTo(sec - 1)
    /\ \A s \in 1 .. (sec - 1) :
          \A c \in 1 .. Len(sections[input][s].courses) :
              RequiredTotal(sections[input][s].courses[c])
                  - PlacedTotal(s, sections[input][s].courses[c].code)
                  = unplaced[s][c]

\* the list holds a course with some sessions placed and some not
C14_Witness ==
    /\ Finished
    /\ \E j \in 1 .. Len(courses_not_scheduled) :
          /\ courses_not_scheduled[j].Scheduled > 0
          /\ courses_not_scheduled[j].Expected > courses_not_scheduled[j].Scheduled

(***************************************************************************)
(* C15.  Two LEC sessions of one course are never placed on the same day   *)
(* of the same section timetable: the two lectures of a course with L = 3  *)
(* are on distinct days.                                                   *)
(***************************************************************************)
SameCourseLectures(p, q) ==
    /\ p # q
    /\ p[1] = q[1]
    /\ RecordOf(p).type = "LEC"
    /\ RecordOf(q).type = "LEC"
    /\ RecordOf(p).code = RecordOf(q).code

C15_DistinctDays ==
    \A p, q \in Sessions : SameCourseLectures(p, q) => p[2] # q[2]

(***************************************************************************)
(* C15 as amended.  Two LEC sessions of one course in one section          *)
(* timetable may share a day; then their starts are at least 6 slots       *)
(* (3 hours) apart.                                                        *)
(***************************************************************************)
C15_SameDayApart ==
    \A p, q \in Sessions :
        (SameCourseLectures(p, q) /\ p[2] = q[2]) => Distance(p[3], q[3]) >= 6

\* both lectures of a course are on one day, exactly 6 slots apart
C15_Witness ==
    \E p, q \in Sessions :
        /\ SameCourseLectures(p, q)
        /\ p[2] = q[2]
        /\ Distance(p[3], q[3]) = 6

(***************************************************************************)
(* C16.  Two different elective courses of one elective group placed at    *)
(* overlapping times on the same day carry the same room id, and electives *)
(* of different groups never share a room at overlapping times.            *)
(***************************************************************************)
OverlappingElectives(p, q) ==
    /\ is_elective_course(RecordOf(p).code)
    /\ is_elective_course(RecordOf(q).code)
    /\ RecordOf(p).code # RecordOf(q).code
    /\ p[2] = q[2]
    /\ SlotsOf(p) \cap SlotsOf(q) # {}

C16_BasketSharesRoom ==
    \A p, q \in Sessions :
        OverlappingElectives(p, q)
            => IF SplitFirst(RecordOf(p).code, "-") = SplitFirst(RecordOf(q).code, "-")
               THEN RecordOf(p).classroom = RecordOf(q).classroom
               ELSE RecordOf(p).classroom # RecordOf(q).classroom

(***************************************************************************)
(* C20.  The instructor of a course is the first alternative of its        *)
(* Faculty string: two sessions whose Faculty strings have the same first  *)
(* alternative never cover the same (day, slot).                           *)
(***************************************************************************)
C20_FirstAlternativeBooked ==
    \A p, q \in Sessions :
        (/\ p # q
         /\ p[2] = q[2]
         /\ choose_instructor(RecordOf(p).faculty)
               = choose_instructor(RecordOf(q).faculty))
            => SlotsOf(p) \cap SlotsOf(q) = {}

(***************************************************************************)
(* C17.  For n semester bases the meal window of the k-th base in          *)
(* ascending order (from 0) starts floor(k * 30 / max(1, n - 1)) minutes   *)
(* after 12:30 and lasts 60 minutes; one base alone has 12:30-13:30.       *)
(***************************************************************************)
MealsComputed == DOMAIN meal_times # {}

RankOf(base) == Cardinality({x \in all_semester_bases : x < base})

C17_MealWindows ==
    MealsComputed
        => /\ DOMAIN meal_times = all_semester_bases
           /\ \A base \in all_semester_bases :
                 /\ meal_times[base][1]
                       = 12 * 60 + 30
                         + (RankOf(base) * 30)
                               \div Max({1, Cardinality(all_semester_bases) - 1})
                 /\ meal_times[base][2] = meal_times[base][1] + 60
           /\ Cardinality(all_semester_bases) = 1
                 => \A base \in all_semester_bases :
                       meal_times[base] = <<12 * 60 + 30, 13 * 60 + 30>>

\* five bases: the stagger of 7.5 minutes is truncated, the second starts 12:37
C17_Witness ==
    /\ MealsComputed
    /\ Cardinality(all_semester_bases) = 5
    /\ \E base \in all_semester_bases : meal_times[base][1] = 12 * 60 + 37

(***************************************************************************)
(* C18.  With the bases {3, 4, 5} the meal windows are 12:30-13:30 for     *)
(* base 3, 13:00-14:00 for base 4 and a window that starts at 13:30 for    *)
(* base 5.                                                                 *)
(***************************************************************************)
ScenarioD == MealsComputed /\ all_semester_bases = {3, 4, 5}

C18_ScenarioD ==
    ScenarioD
        => /\ meal_times[3] = <<12 * 60 + 30, 13 * 60 + 30>>
           /\ meal_times[4] = <<13 * 60, 14 * 60>>
           /\ meal_times[5][1] = 13 * 60 + 30

(***************************************************************************)
(* C18 as amended.  With the bases {3, 4, 5} the stagger is 15 minutes:    *)
(* the meal windows are 12:30-13:30 for base 3, 12:45-13:45 for base 4 and *)
(* 13:00-14:00 for base 5.                                                 *)
(***************************************************************************)
C18_QuarterHourStagger ==
    ScenarioD
        => /\ meal_times[3] = <<12 * 60 + 30, 13 * 60 + 30>>
           /\ meal_times[4] = <<12 * 60 + 45, 13 * 60 + 45>>
           /\ meal_times[5] = <<13 * 60, 14 * 60>>

\* the meal breaks of the bases 3, 4 and 5 are computed
C18_Witness == ScenarioD /\ DOMAIN meal_times = {3, 4, 5}

(***************************************************************************)
(* C19.  With three or more semester bases the meal window of the latest   *)
(* base ends after 14:00, the end of the meal period; with three bases it  *)
(* is 13:30-14:30.                                                         *)
(***************************************************************************)
LatestBase == CHOOSE base \in all_semester_bases :
                  \A x \in all_semester_bases : x <= base

C19_LatestEndsLate ==
    (MealsComputed /\ Cardinality(all_semester_bases) >= 3)
        => /\ meal_times[LatestBase][2] > MEAL_PERIOD_END
           /\ Cardinality(all_semester_bases) = 3
                 => meal_times[LatestBase] = <<13 * 60 + 30, 14 * 60 + 30>>

(***************************************************************************)
(* C19 as amended.  For every set of semester bases no meal window ends    *)
(* after 14:00; with two or more bases the window of the latest base is    *)
(* 13:00-14:00.                                                            *)
(***************************************************************************)
C19_WithinMealPeriod ==
    MealsComputed
        => /\ \A base \in all_semester_bases : meal_times[base][2] <= 14 * 60
           /\ Cardinality(all_semester_bases) >= 2
                 => meal_times[LatestBase] = <<13 * 60, 14 * 60>>

\* three or more bases, and the latest window ends at 14:00
C19_Witness ==
    /\ MealsComputed
    /\ Cardinality(all_semester_bases) >= 3
    /\ meal_times[LatestBase][2] = MEAL_PERIOD_END


(***************************************************************************)
(* C21: for every credit tuple (L, T, P, S) of non-negative integers the   *)
(* deriver returns (0,0,0,0) when S>0 and L=T=P=0, and otherwise           *)
(* lectures = max(1, round(2L/3)) if L>0 else 0, tutorials = T,            *)
(* labs = P // 2, self-study = S // 4 if any of L, T, P is positive.       *)
(***************************************************************************)
Returned(fn) == DOMAIN returned # {} /\ returned.fn = fn

\* the integer nearest to num / den
Nearest(num, den) ==
    CHOOSE q \in 0 .. num : 2 * (IF num >= q * den THEN num - q * den
                                 ELSE q * den - num) <= den

C21_RequiredSessions ==
    Returned("determine_required_sessions") =>
        LET c == call.course
            v == returned.value
        IN  IF c.S > 0 /\ c.L = 0 /\ c.T = 0 /\ c.P = 0
            THEN v = [lec |-> 0, tut |-> 0, lab |-> 0, ss |-> 0]
            ELSE /\ v.lec = (IF c.L > 0 THEN Max({1, Nearest(2 * c.L, 3)}) ELSE 0)
                 /\ v.tut = c.T
                 /\ v.lab = c.P \div 2
                 /\ v.ss = (IF c.L > 0 \/ c.T > 0 \/ c.P > 0
                            THEN c.S \div 4 ELSE 0)

\* four lecture credits give three lectures, four self-study hours one session
C21_Witness ==
    /\ Returned("determine_required_sessions")
    /\ call.course.L = 4
    /\ call.course.P = 3
    /\ call.course.S = 4
    /\ returned.value = [lec |-> 3, tut |-> call.course.T, lab |-> 1, ss |-> 1]


(***************************************************************************)
(* C28: in the course iteration order of a section every course with lab   *)
(* hours (P > 0) comes before every course without lab hours (P = 0),      *)
(* elective courses with P > 0 included.                                   *)
(***************************************************************************)
C28_LabCoursesFirst ==
    Returned("prioritized_courses") =>
        \A i, j \in 1 .. Len(returned.value) :
            (returned.value[i].P = 0 /\ returned.value[j].P > 0) => j < i

(***************************************************************************)
(* C29: the priority of a course is 10 (+2 if the code contains CS or EC)  *)
(* when it is a non-elective course with P > 0; otherwise 1 if it is an    *)
(* elective; otherwise 3 if L > 2; otherwise 2 if T > 0; otherwise 0; and  *)
(* the courses of a section are attempted in non-increasing priority.      *)
(***************************************************************************)
HasPair(code, a, b) ==
    \E i \in 1 .. (Len(code) - 1) : code[i] = a /\ code[i + 1] = b

IsElective(code) ==
    /\ code # << >>
    /\ Head(code) = "B"
    /\ \E i \in 1 .. Len(code) : code[i] = "-"

ClaimedPriority(c) ==
    CASE c.P > 0 /\ ~IsElective(c.code) ->
             IF HasPair(c.code, "C", "S") \/ HasPair(c.code, "E", "C")
             THEN 12 ELSE 10
      [] c.P > 0 /\ IsElective(c.code) -> 1
      [] c.P = 0 /\ IsElective(c.code) -> 1
      [] c.P = 0 /\ ~IsElective(c.code) /\ c.L > 2 -> 3
      [] c.P = 0 /\ ~IsElective(c.code) /\ c.L <= 2 /\ c.T > 0 -> 2
      [] OTHER -> 0

C29_PriorityOrder ==
    /\ Returned("determine_course_priority") =>
            returned.value = ClaimedPriority(call.course)
    /\ Returned("prioritized_courses") =>
            /\ Len(returned.value) = Len(call.rows)
            /\ \A i, j \in 1 .. Len(returned.value) :
                   i < j => ClaimedPriority(returned.value[i])
                                >= ClaimedPriority(returned.value[j])

\* a sheet whose rows were reordered: the lecture course (3) is taken from
\* behind the course without priority (0)
C29_Witness ==
    /\ Returned("prioritized_courses")
    /\ Len(call.rows) = 3
    /\ call.rows[1].code = CS101
    /\ call.rows[2].code = MA101
    /\ call.rows[3].code = CS301
    /\ returned.value[1].code = CS301
    /\ returned.value[2].code = MA101
    /\ returned.value[3].code = CS101


(***************************************************************************)
(* C26: every committed TUT session passed the same-course spacing check   *)
(* at its own (day, start): no TUT of a course and instructor starts       *)
(* within 6 slots of a LEC or another TUT of that course and instructor on *)
(* the same day of the same section timetable.                             *)
(***************************************************************************)
C26_TutorialSpacing ==
    \A p, q \in Sessions :
        (/\ p # q
         /\ p[1] = q[1]
         /\ p[2] = q[2]
         /\ RecordOf(p).type = "TUT"
         /\ RecordOf(q).type \in {"LEC", "TUT"}
         /\ RecordOf(p).code = RecordOf(q).code
         /\ RecordOf(p).faculty = RecordOf(q).faculty)
            => Distance(p[3], q[3]) > MIN_HOURS_GAP * SLOTS_PER_HOUR


(***************************************************************************)
(* C27: the same-course spacing check rejects a candidate (day, start)     *)
(* whenever the instructor has a LEC or TUT session of the same code on    *)
(* that day that occupies a slot within 6 slots before or after the        *)
(* candidate start, the same in both directions, and never rejects because *)
(* of a LAB or SS session.                                                 *)
(***************************************************************************)
C27_SymmetricSpacing ==
    Returned("check_course_session_spacing") =>
        LET row == call.timetable[call.day]
            taught == {x \in Slots :
                         /\ row[x].code = call.course_code
                         /\ row[x].faculty = call.instructor
                         /\ row[x].type \in {"LEC", "TUT"}}
            Near(x) ==
                \E y \in Covered(x, KindLength(row[x].type)) :
                    Distance(y, call.start_slot) <= 6
        IN  /\ (\E x \in taught : Near(x)) => returned.value = FALSE
            /\ taught = {} => returned.value = TRUE


(***************************************************************************)
(* C30: no room id returned by the allocator, a single room or either      *)
(* member of a pair, is of type LIBRARY or a member of the excluded set    *)
(* passed by the caller, also when the course is an elective.              *)
(***************************************************************************)
C30_NoLibraryNoExcluded ==
    Returned("assign_suitable_room") =>
        \A j \in 1 .. Len(returned.value.room_id) :
            /\ returned.value.room_id[j] \notin call.excluded_rooms
            /\ \A x \in 1 .. Len(call.rooms) :
                   call.rooms[x].id = returned.value.room_id[j]
                       => call.rooms[x].type # "LIBRARY"


(***************************************************************************)
(* C24: with an empty room inventory the allocator answers DEFAULT_ROOM to *)
(* every request, the room of every placement record is DEFAULT_ROOM, no   *)
(* room register exists that could reject a placement, and the instructor, *)
(* section-slot and break constraints are still enforced.                  *)
(***************************************************************************)
\* the requests the engine makes for a session of the kind
RequestType(kind, course) ==
    CASE kind = "LEC" -> "LEC"
      [] kind = "TUT" -> "TUT"
      [] kind = "SS" -> "SELF_STUDY"
      [] kind = "LAB" -> determine_room_type(course)

C24_EveryRequestDefault ==
    \A s \in DOMAIN schedule, kind \in {"LEC", "TUT", "LAB", "SS"}, d \in Days :
        \A c \in 1 .. Len(sections[input][s].courses) :
            \A x \in 0 .. (NumSlots - KindLength(kind)) :
                assign_suitable_room(
                    RequestType(kind, sections[input][s].courses[c]),
                    sections[input][s].department, sections[input][s].semester,
                    d, x, KindLength(kind), facilities[input],
                    enrollment_data[input], schedule[s],
                    sections[input][s].courses[c].code, {}, room_schedule)
                  = [room_id |-> <<"DEFAULT_ROOM">>, rs |-> room_schedule]

C24_EmptyInventory ==
    facilities[input] = << >> =>
        /\ DOMAIN room_schedule = {}
        /\ C24_EveryRequestDefault
        /\ \A p \in Sessions :
              /\ RecordOf(p).classroom = <<"DEFAULT_ROOM">>
              /\ \A x \in SlotsOf(p) :
                    /\ ~StartsInBreak(x, sections[input][p[1]].semester)
                    /\ schedule[p[1]][p[2]][x].type = RecordOf(p).type
                    /\ x \in instructor_schedules[RecordOf(p).faculty][p[2]]
        /\ \A p, q \in Sessions :
              (/\ p # q
               /\ p[2] = q[2]
               /\ \/ p[1] = q[1]
                  \/ RecordOf(p).faculty = RecordOf(q).faculty)
                  => SlotsOf(p) \cap SlotsOf(q) = {}

\* two sections hold sessions in DEFAULT_ROOM at the same time
C24_Witness ==
    /\ facilities[input] = << >>
    /\ \E p, q \in Sessions :
          /\ p[1] # q[1]
          /\ p[2] = q[2]
          /\ SlotsOf(p) \cap SlotsOf(q) # {}
          /\ RecordOf(p).classroom = <<"DEFAULT_ROOM">>
          /\ RecordOf(q).classroom = <<"DEFAULT_ROOM">>


(***************************************************************************)
(* C25: while the timetable of the section in process has no free slot     *)
(* (every slot outside the breaks holds a session), no step of the engine  *)
(* commits a placement: the section timetables, the instructor register    *)
(* and every room register stay as they are.                               *)
(***************************************************************************)
SheetFull ==
    /\ sec \in DOMAIN schedule
    /\ \A d \in Days, x \in Slots :
          \/ schedule[sec][d][x].type # None
          \/ StartsInBreak(x, sections[input][sec].semester)

C25_FullSheetFrame ==
    [][SheetFull => UNCHANGED <<schedule, instructor_schedules, room_schedule>>]_vars

\* a loop over a full sheet has ended without a placement, and rooms are held
C25_Witness ==
    /\ SheetFull
    /\ \E c \in DOMAIN unplaced[sec] : unplaced[sec][c] > 0
    /\ \E r \in DOMAIN room_schedule, d \in Days : room_schedule[r][d] # {}


(***************************************************************************)
(* C22: every run terminates.  A LEC, TUT or SS session makes at most      *)
(* MaxAttempts attempts (1000 in the source) and every attempt that places *)
(* nothing consumes one; a lab session is one search over the days and     *)
(* starts; a session that exhausts its search is dropped and the run goes  *)
(* on with the remaining sessions: no abort follows from a dropped         *)
(* session.                                                                *)
(***************************************************************************)
SameSession == <<sec, phase, ci, k>>' = <<sec, phase, ci, k>>

NothingDropped ==
    \A s \in DOMAIN unplaced : \A c \in DOMAIN unplaced[s] : unplaced[s][c] = 0

C22_Terminates ==
    /\ [](attempts < MaxAttempts)
    /\ [][IF SameSession
          THEN /\ phase \in {"LEC", "TUT", "SS"}
               /\ attempts' = attempts + 1
               /\ UNCHANGED <<schedule, instructor_schedules, room_schedule>>
          ELSE attempts' = 0]_vars
    /\ [][phase' = "ERROR" => NothingDropped']_vars
    /\ <>(phase \in {"DONE", "ERROR"})

\* the lecture of a course was dropped after its last attempt, its lab placed
C22_Witness ==
    /\ Finished
    /\ \E s \in DOMAIN schedule :
          \E c \in 1 .. Len(sections[input][s].courses) :
              /\ unplaced[s][c] > 0
              /\ PlacedCount(s, sections[input][s].courses[c].code, "LEC") = 0
              /\ RequiredCount(sections[input][s].courses[c], "LEC") > 0
              /\ PlacedCount(s, sections[input][s].courses[c].code, "LAB") > 0


Allocated == Returned("assign_suitable_room")

\* the rooms returned, as records of the inventory
RoomsReturned ==
    {r \in Range(call.rooms) : r.id \in Range(returned.value.room_id)}

LectureKinds == {"LEC", "TUT", "SELF_STUDY"}

ForElective == is_elective_course(call.course_code)

\* free at the time asked, before the call
WasFree(r) ==
    \A x \in call.start_slot .. (call.start_slot + call.duration - 1) :
        x \notin call.rs[r.id][call.day]

LectureOrSeater(r) ==
    TypeContains(r.type, "LECTURE_ROOM") \/ TypeContains(r.type, "SEATER")

\* the size a request needs: the registered total of an elective, the
\* section size of a regular course, 60 without an enrollment record
SizeNeeded ==
    IF ForElective
    THEN IF <<"ELECTIVE", call.course_code>> \in DOMAIN call.enrollment_data
         THEN call.enrollment_data[<<"ELECTIVE", call.course_code>>].total
         ELSE 60
    ELSE IF <<call.department, call.semester>> \in DOMAIN call.enrollment_data
         THEN call.enrollment_data[<<call.department, call.semester>>].section_size
         ELSE 60

WeeklyUsage(r) == SumOver([d \in Days |-> Cardinality(call.rs[r.id][d])], Days)

(***************************************************************************)
(* C31: every room allocated to a session of an elective course, whatever  *)
(* kind the request carries (COMPUTER_LAB and HARDWARE_LAB included), has  *)
(* a type that contains LECTURE_ROOM or SEATER.                            *)
(***************************************************************************)
C31_ElectiveRooms ==
    (Allocated /\ ForElective) => \A r \in RoomsReturned : LectureOrSeater(r)

(***************************************************************************)
(* C32: every room returned for a non-elective request matches the kind    *)
(* asked: a COMPUTER_LAB request gets rooms of type COMPUTER_LAB only, a   *)
(* HARDWARE_LAB request rooms of type HARDWARE_LAB only (both rooms of a   *)
(* pair), a LEC, TUT or SS request rooms whose type contains LECTURE_ROOM  *)
(* or SEATER only.                                                         *)
(***************************************************************************)
C32_KindMatches ==
    (Allocated /\ ~ForElective) =>
        /\ Cardinality(RoomsReturned) = Len(returned.value.room_id)
        /\ \A r \in RoomsReturned :
              /\ call.course_type = "COMPUTER_LAB" => Upper(r.type) = "COMPUTER_LAB"
              /\ call.course_type = "HARDWARE_LAB" => Upper(r.type) = "HARDWARE_LAB"
              /\ call.course_type \in LectureKinds => LectureOrSeater(r)

\* a pair of hardware labs is returned
C32_Witness ==
    /\ Allocated
    /\ ~ForElective
    /\ call.course_type = "HARDWARE_LAB"
    /\ returned.value.room_id = <<"H1", "H2">>

(***************************************************************************)
(* C33: every room returned for a LEC, TUT or SS request has a capacity of *)
(* at least the size needed (the registered total of an elective, the      *)
(* section size of the department and semester for a regular course, 60    *)
(* without an enrollment record); a lab request is granted whatever the    *)
(* capacity of the lab.                                                    *)
(***************************************************************************)
C33_Capacity ==
    Allocated =>
        /\ call.course_type \in LectureKinds
              => \A r \in RoomsReturned : r.capacity >= SizeNeeded
        /\ (/\ call.course_type \in {"COMPUTER_LAB", "HARDWARE_LAB"}
            /\ \E r \in Range(call.rooms) :
                   /\ r.type = call.course_type
                   /\ r.id \notin call.excluded_rooms
                   /\ WasFree(r))
              => RoomsReturned # {}

\* a section of 70 is sent past both free lecture rooms to the seater room
C33_Witness ==
    /\ Allocated
    /\ call.course_type = "LEC"
    /\ ~ForElective
    /\ SizeNeeded = 70
    /\ \A r \in Range(call.rooms) : WasFree(r)
    /\ returned.value.room_id = <<"S1">>

(***************************************************************************)
(* C34: for a lab request of a department and semester with more than 35   *)
(* students a single room is returned only if no two rooms exist that are  *)
(* not excluded, of the lab type asked, on the same floor, numbered one    *)
(* apart and both free for the duration; whenever such rooms exist a pair  *)
(* is returned.                                                            *)
(***************************************************************************)
PairExists ==
    \E a, b \in Range(call.rooms) :
        /\ a.id \notin call.excluded_rooms
        /\ b.id \notin call.excluded_rooms
        /\ a.type = call.course_type
        /\ b.type = call.course_type
        /\ a.roomNumber \div 100 = b.roomNumber \div 100
        /\ a.roomNumber - b.roomNumber = 1
        /\ WasFree(a)
        /\ WasFree(b)

C34_PairWhenExists ==
    (/\ Allocated
     /\ call.course_type \in {"COMPUTER_LAB", "HARDWARE_LAB"}
     /\ <<call.department, call.semester>> \in DOMAIN call.enrollment_data
     /\ call.enrollment_data[<<call.department, call.semester>>].total > 35)
        => /\ Len(returned.value.room_id) = 1 => ~PairExists
           /\ PairExists => Len(returned.value.room_id) = 2

(***************************************************************************)
(* C36: the room returned for an elective request has the least weekly     *)
(* usage (the occupied slots of the room summed over the days) among all   *)
(* the lecture and seater rooms that are free for the duration and large   *)
(* enough.                                                                 *)
(***************************************************************************)
C36_LeastUsed ==
    (Allocated /\ ForElective /\ call.course_type \in LectureKinds) =>
        \A r \in RoomsReturned :
            \A o \in Range(call.rooms) :
                (LectureOrSeater(o) /\ WasFree(o) /\ o.capacity >= SizeNeeded)
                    => WeeklyUsage(r) <= WeeklyUsage(o)

(***************************************************************************)
(* C37: for a non-elective LEC, TUT or SS request a seater room is         *)
(* returned only if no lecture room is free for the duration, large enough *)
(* and not excluded, and no room is returned only if no lecture room and   *)
(* no seater room is.                                                      *)
(***************************************************************************)
Qualifies(r) ==
    /\ r.id \notin call.excluded_rooms
    /\ r.capacity >= SizeNeeded
    /\ WasFree(r)

C37_LectureBeforeSeater ==
    (Allocated /\ ~ForElective /\ call.course_type \in LectureKinds) =>
        /\ (\E r \in RoomsReturned : TypeContains(r.type, "SEATER"))
              => ~ \E o \in Range(call.rooms) :
                       TypeContains(o.type, "LECTURE_ROOM") /\ Qualifies(o)
        /\ RoomsReturned = {}
              => ~ \E o \in Range(call.rooms) : LectureOrSeater(o) /\ Qualifies(o)

\* the seater room is returned while one lecture room is taken and the
\* other excluded
C37_Witness ==
    /\ Allocated
    /\ ~ForElective
    /\ call.course_type = "TUT"
    /\ SizeNeeded = 30
    /\ call.excluded_rooms = {"R1"}
    /\ ~WasFree(CHOOSE r \in Range(call.rooms) : r.id = "R2")
    /\ returned.value.room_id = <<"S1">>

(***************************************************************************)
(* C38: for positive total_students and max_batch_size the section count   *)
(* is ceil(total_students / max_batch_size) and the section size is        *)
(* ceil(total_students / section count); so the section size is at most    *)
(* max_batch_size and count times size is at least total_students.         *)
(***************************************************************************)
Ceil(a, b) == CHOOSE q \in 0 .. a : q * b >= a /\ (q - 1) * b < a

C38_SectionArithmetic ==
    Returned("import_enrollment_data") =>
        /\ returned.value.total = call.Total_Students
        /\ returned.value.num_sections
              = Ceil(call.Total_Students, call.MaxBatchSize)
        /\ returned.value.section_size
              = Ceil(call.Total_Students, returned.value.num_sections)
        /\ returned.value.section_size <= call.MaxBatchSize
        /\ returned.value.num_sections * returned.value.section_size
              >= call.Total_Students

\* seven students in batches of at most three: three sections of three
C38_Witness ==
    /\ Returned("import_enrollment_data")
    /\ call.Total_Students = 7
    /\ call.MaxBatchSize = 3
    /\ returned.value.num_sections = 3
    /\ returned.value.section_size = 3


(***************************************************************************)
(* C39: for every non-empty set of semester bases and every base in it the *)
(* slots classified as meal break are exactly two consecutive 30-minute    *)
(* slots that both start within 12:30-13:30 and so lie inside 12:30-14:00, *)
(* also when the meal window does not start on a slot boundary; slot 3     *)
(* (10:30-11:00) is a break for every semester.                            *)
(***************************************************************************)
\* the semester string of a base
SemesterOf(base) ==
    <<CHOOSE c \in {"0", "1", "2", "3", "4", "5", "6", "7", "8", "9"} :
          DigitVal(c) = base>>

BreakSlots(base) ==
    {x \in Slots : is_break_period(meal_times, TimeSlot(x), SemesterOf(base))}

C39_MealSlots ==
    MealsComputed =>
        /\ TimeSlot(3) = [start |-> 10 * 60 + 30, end |-> 11 * 60]
        /\ \A base \in 1 .. 9 : 3 \in BreakSlots(base)
        /\ \A base \in all_semester_bases :
              \E m \in Slots :
                  /\ BreakSlots(base) = {3, m, m + 1}
                  /\ TimeSlot(m).start >= 12 * 60 + 30
                  /\ TimeSlot(m + 1).start = TimeSlot(m).start + 30
                  /\ TimeSlot(m + 1).start <= 13 * 60 + 30
                  /\ TimeSlot(m + 1).end <= 14 * 60

\* a window of 12:37-13:37 makes the slots of 13:00 and 13:30 the meal break
C39_Witness ==
    /\ MealsComputed
    /\ \E base \in all_semester_bases :
          /\ meal_times[base] = <<12 * 60 + 37, 13 * 60 + 37>>
          /\ BreakSlots(base) = {3, 8, 9}


(***************************************************************************)
(* C35: lab placement is exhaustive.  A required lab session is left       *)
(* unplaced only if room allocation fails for every day and every start    *)
(* whose four slots are free of instructor conflict, section conflict and  *)
(* break; when it is placed it sits at the lowest such start of its day    *)
(* for which a room is found, and its day is a day that has such a start   *)
(* (the first one in the shuffled order).                                  *)
(***************************************************************************)
\* the starts of the day at which the lab session in process can be held
LabStarts(d) ==
    {s \in 0 .. (NumSlots - LAB) :
        /\ \A x \in s .. (s + LAB - 1) :
              /\ x \notin instructor_schedules[
                               sections[input][sec].courses[ci].Faculty][d]
              /\ schedule[sec][d][x].type = None
              /\ ~StartsInBreak(x, sections[input][sec].semester)
        /\ Allocate(determine_room_type(sections[input][sec].courses[ci]),
                    sections[input][sec], sections[input][sec].courses[ci],
                    d, s, LAB).room_id # << >>}

\* the sessions the step adds to the timetable of the section
LabsAdded ==
    {p \in Days \X Slots :
        /\ schedule[sec][p[1]][p[2]].type = None
        /\ schedule'[sec][p[1]][p[2]].type = "LAB"
        /\ schedule'[sec][p[1]][p[2]].code = sections[input][sec].courses[ci].code}

LabSearched ==
    IF \A d \in Days : LabStarts(d) = {}
    THEN UNCHANGED <<schedule, instructor_schedules, room_schedule>>
    ELSE \E d \in Days :
            /\ LabStarts(d) # {}
            /\ LabsAdded = {<<d, Min(LabStarts(d))>>}

C35_LabExhaustive == [][phase = "LAB" => LabSearched]_vars

\* two sections hold their labs in the same room on the same day: the later
\* one could not have the first start of the day
C35_Witness ==
    \E p, q \in Sessions :
        /\ RecordOf(p).type = "LAB"
        /\ RecordOf(q).type = "LAB"
        /\ p[1] # q[1]
        /\ p[2] = q[2]
        /\ p[3] < q[3]
        /\ RecordOf(p).classroom = RecordOf(q).classroom
        /\ RecordOf(p).classroom # <<"DEFAULT_ROOM">>


(***************************************************************************)
(* C40: in a run of the engine the elective reuse branch is never taken.   *)
(* The engine asks for a room only when every covered slot of the section  *)
(* timetable is empty, so the scan of the allocator never meets a room     *)
(* that a record of the section timetable holds at the time asked: it adds *)
(* no room to the exclusion set of the call, notes no room of the basket,  *)
(* and a room returned for an elective was free.                           *)
(***************************************************************************)
\* the elective session in process can ask for a room at the day and start
ElectiveRequest(d, x) ==
    /\ phase \in {"LEC", "TUT", "SS"}
    /\ facilities[input] # << >>
    /\ is_elective_course(sections[input][sec].courses[ci].code)
    /\ x <= NumSlots - KindLength(phase)
    /\ SlotsAvailable(
           instructor_schedules[sections[input][sec].courses[ci].Faculty],
           schedule[sec], meal_schedules[input], d, x, KindLength(phase),
           sections[input][sec].semester)

\* the records the scan of the call meets
ScanCodes(d, x) ==
    ElectiveMarks(ElectiveOrder(facilities[input], room_schedule),
                  get_elective_group(sections[input][sec].courses[ci].code),
                  RequiredSize(enrollment_data[input],
                               sections[input][sec].department,
                               sections[input][sec].semester,
                               sections[input][sec].courses[ci].code),
                  d, x, KindLength(phase), schedule[sec], room_schedule).codes

C40_NoReuse ==
    \A d \in Days, x \in Slots :
        ElectiveRequest(d, x) =>
            /\ DOMAIN ScanCodes(d, x) = {}
            /\ \A id \in Range(Allocate(RequestType(phase,
                                     sections[input][sec].courses[ci]),
                                 sections[input][sec],
                                 sections[input][sec].courses[ci],
                                 d, x, KindLength(phase)).room_id) :
                  IsFree(room_schedule, id, d, x, KindLength(phase))

\* an elective can ask for a room at a time when a room of the inventory is
\* taken by another section
C40_Witness ==
    \E d \in Days, x \in Slots :
        /\ ElectiveRequest(d, x)
        /\ \E id \in DOMAIN room_schedule :
              ~IsFree(room_schedule, id, d, x, KindLength(phase))

=============================================================================
